---------------------------- MODULE Spec2Model ----------------------------
(***************************************************************************)
(* Time-domain step generator and motion buffer of the pyGestalt networked *)
(* stepper nodes:                                                          *)
(*   src/nodes/networkedSingleStepper/firmware/086-005b.cpp  (1 axis)      *)
(*   src/nodes/magicMill/firmware/096-001b.cpp               (3 axes)      *)
(*                                                                         *)
(* Two execution contexts.  The foreground runs one packet handler at a    *)
(* time, one step per statement that touches state shared with the         *)
(* interrupt.  The timer interrupt TIMER1_COMPA runs to completion (the    *)
(* AVR clears the global interrupt flag on entry), so it is one action,    *)
(* and it may fire between any two foreground steps.                       *)
(***************************************************************************)
EXTENDS Integers, Sequences, FiniteSets, TLC

(***************************************************************************)
(* Program constants.                                                      *)
(***************************************************************************)
smoothingMicrosteppingBits == 2

gestaltPort_sync == 8

gestaltPort_stepRequest == 13

gestaltPort_getVRef == 11

gestaltPort_enableDrivers == 12

gestaltPort_getPosition == 14

gestaltPort_getStatus == 15

SingleStepper == "086-005b"

MagicMill == "096-001b"

(***************************************************************************)
(* Bounds of the model.  The firmware's motionBuffer_length is 48 (1 axis) *)
(* and 32 (3 axes); the buffer code is the same for every length, and the  *)
(* model runs it on a short ring so that it fills and wraps.  MaxRequests  *)
(* and MaxMoves cap the stepRequest packets the host sends in one          *)
(* behaviour, drawing from the ring menu and from the motion menu.         *)
(* (A ring of motionBuffer_length slots holds motionBuffer_length - 1      *)
(* segments; the step-count runs queue two, so the ring has three slots or *)
(* more.)                                                                  *)
(***************************************************************************)
motionBuffer_length == 3

MaxRequests == 3

MaxMoves == 2

\* The step-count runs: host targets of up to MaxHostSteps steps either way,
\* segment times of up to MaxTicks ticks, started MaxPrelude microsteps or less
\* from the origin.
MaxHostSteps == 2

MaxTicks == 10

MaxPrelude == 3

\* The timer's compare value, 1152 counts in the firmware (line 80).
stepGenerator_timeBase == 3

\* The stepRequest packets of a host that sizes its enqueues against the buffer.
MaxFlowRequests == 3

\* The stepRequest packets sent in a behaviour that tells the timer's counts apart.
MaxTimed == 2

\* The stepRequest packets sent in a behaviour with packets on every port.
MaxPortRequests == 2

\* The long move: its target in host steps (256 internal microsteps), its
\* segment time in ticks, and the stepRequest packets that carry it.
LongSteps == 64

LongTime == 257

MaxLong == 1

VARIABLES
    node,                                 \* which firmware this node runs
    host,                                 \* the node's surroundings: the requests the host
                                          \* draws from and how many, whether it sends them
                                          \* on credit, and whether timer counts are told apart
    TCNT1,                                \* the counter register of timer 1
    motionBuffer,                         \* struct motionSegment motionBuffer[]
    motionBuffer_readPosition,
    motionBuffer_writePosition,
    motionBuffer_syncSearchPosition,
    activeSegment_stepperStates,          \* struct stepperState [axis]
    activeSegment_bresenhamTriggerThreshold,
    activeSegment_timeRemaining,
    activeSegment_totalTime,
    activeSegment_segmentKey,
    waitingForSync,
    stepperPositions,
    driversEnabled,                       \* the (active low) enable pins
    directionPins,                        \* the direction pins, 1 = forward
    pc,                                   \* the foreground's position
    rxBuffer,                             \* payload of the packet being handled
    local,                                \* the running handler's locals
    pending,                              \* history: accepted requests not yet loaded
    cur,                                  \* history: what the latest load read
    preempted,                            \* history: a load ran inside the running handler
    pulses,                               \* history: pulses per axis since the latest load
    motorPosition,                        \* history: where the step and direction pins have
                                          \*          driven each motor, in microsteps
    nRequests,                            \* history: stepRequests sent so far
    rejected,                             \* history: keys of the requests rejected as full
    allAbsolute,                          \* history: every accepted request was absolute
    idleRun,                              \* history: the segment accepted by an idle node
    steppedInRead,                        \* history: a position changed while svc_getPosition
                                          \*          was reading the positions
    sinceSync,                            \* history: timer counts since a sync found the step
                                          \*          generator waiting, -1 once a tick has come
    ignoredPort,                          \* history: the port of the latest packet, if the
                                          \*          router had no case for it, else 0
    underflowed                           \* history: the latest call of the interrupt found
                                          \*          no time remaining and the buffer empty
                                          \*          (kept where timer counts are told apart)

progVars == <<motionBuffer, motionBuffer_readPosition, motionBuffer_writePosition,
              motionBuffer_syncSearchPosition, activeSegment_stepperStates,
              activeSegment_bresenhamTriggerThreshold, activeSegment_timeRemaining,
              activeSegment_totalTime, activeSegment_segmentKey, waitingForSync,
              stepperPositions, driversEnabled, directionPins>>

isrVars == <<motionBuffer_readPosition, motionBuffer_syncSearchPosition,
             activeSegment_stepperStates, activeSegment_bresenhamTriggerThreshold,
             activeSegment_timeRemaining, activeSegment_totalTime,
             activeSegment_segmentKey, waitingForSync, stepperPositions,
             driversEnabled, directionPins>>

fgVars == <<pc, rxBuffer, local>>

histKept == <<pending, cur, pulses, motorPosition, nRequests, rejected, allAbsolute,
              idleRun, steppedInRead, sinceSync, underflowed>>

histRest == <<histKept, ignoredPort>>

histVars == <<histRest, preempted>>

vars == <<node, host, TCNT1, progVars, fgVars, histVars>>

(***************************************************************************)
(* Fixed-width integers.  TLC's integers are 32 bits wide, the width of    *)
(* the firmware's int32_t; every value of the model stays far inside that  *)
(* range, so int32_t and uint32_t arithmetic is plain arithmetic here.  A  *)
(* uint32_t that is decremented at 0 is kept as -1, the int32_t reading of *)
(* its bit pattern 0xFFFFFFFF.                                             *)
(***************************************************************************)
Pow2(n) == 2 ^ n

ToUint8(x) == x % 256

\* int32_t << n as avr-gcc compiles it: a shift of the two's-complement bits.
ShiftLeft32(x, n) == x * Pow2(n)

\* Variant: a shift that rounds towards zero.
ShiftRight32_towardsZero(x, n) == IF x < 0 THEN -((-x) \div Pow2(n)) ELSE x \div Pow2(n)

\* int32_t >> n as avr-gcc compiles it: an arithmetic shift (floor division).
ShiftRight32(x, n) == x \div Pow2(n)

\* Byte k (0 = low) of an unsigned value.
ByteOf(value, k) == (value \div Pow2(8 * k)) % 256

SteppersOn(n) == IF n = SingleStepper THEN 1 ELSE 3

numberOfSteppersOnNode == SteppersOn(node)

Steppers == 0 .. (numberOfSteppersOnNode - 1)

Slots == 0 .. (motionBuffer_length - 1)

(***************************************************************************)
(* RX/TX buffer codec.  A payload is a sequence of bytes; payload index k  *)
(* is element k + 1.                                                       *)
(***************************************************************************)
writeTxBuffer_uint16(tx, value, payloadIndex) ==
    [tx EXCEPT ![payloadIndex + 1] = ByteOf(value, 0),
               ![payloadIndex + 2] = ByteOf(value, 1)]

writeTxBuffer_uint24(tx, value, payloadIndex) ==
    [tx EXCEPT ![payloadIndex + 1] = ByteOf(value, 0),
               ![payloadIndex + 2] = ByteOf(value, 1),
               ![payloadIndex + 3] = ByteOf(value, 2)]

writeTxBuffer_int24(tx, value, payloadIndex) ==
    writeTxBuffer_uint24(tx, value % Pow2(24), payloadIndex)

readRxBuffer_uint24(rx, payloadIndex) ==
    rx[payloadIndex + 1] + rx[payloadIndex + 2] * Pow2(8) + rx[payloadIndex + 3] * Pow2(16)

\* Variant: the sign taken from a value above 0x800000 only.
readRxBuffer_int24_above(rx, payloadIndex) ==
    LET unsignedValue == readRxBuffer_uint24(rx, payloadIndex)
    IN  IF unsignedValue > 8388608
        THEN unsignedValue - Pow2(24)
        ELSE unsignedValue

readRxBuffer_int24(rx, payloadIndex) ==
    LET unsignedValue == readRxBuffer_uint24(rx, payloadIndex)
    IN  IF unsignedValue >= 8388608
        THEN unsignedValue - Pow2(24)     \* (int32_t)(unsignedValue + 0xFF000000)
        ELSE unsignedValue

(***************************************************************************)
(* The host's side of the wire: a stepRequest payload of 3N + 6 bytes, N   *)
(* little-endian int24 targets, uint24 segmentTime, segmentKey, absolute,  *)
(* waitForSync.  A request is the record of the values the host encodes.   *)
(***************************************************************************)
HostInt24(v) == <<ByteOf(v % Pow2(24), 0), ByteOf(v % Pow2(24), 1), ByteOf(v % Pow2(24), 2)>>

RECURSIVE HostTargetBytes(_, _)
HostTargetBytes(target, i) ==
    IF i >= Len(target) THEN <<>>
    ELSE HostInt24(target[i + 1]) \o HostTargetBytes(target, i + 1)

StepRequestPayload(req) ==
    HostTargetBytes(req.target, 0) \o HostInt24(req.time)
        \o <<req.key, req.absolute, req.waitForSync>>

NoRequest == [key |-> 0, target |-> <<>>, time |-> 0, absolute |-> 0, waitForSync |-> 0]

Move(target, time, absolute, waitForSync) ==
    [key |-> 0, target |-> target, time |-> time, absolute |-> absolute,
     waitForSync |-> waitForSync]

(***************************************************************************)
(* The host's menus: targets in host steps, segment times in ticks.  With  *)
(* two smoothing bits a host step is 4 internal microsteps.  The ring menu *)
(* has few requests, each different in every field, and is sent more       *)
(* often; the motion menu covers both directions, incremental and absolute *)
(* moves, and moves of fewer, as many and more microsteps than ticks.      *)
(***************************************************************************)
RingMenu(n) ==
    IF n = SingleStepper
    THEN {Move(<<1>>, 4, 0, 0), Move(<<-1>>, 3, 1, 1), Move(<<1>>, 2, 1, 0)}
    ELSE {Move(<<1, 0, -1>>, 4, 0, 0), Move(<<0, -1, 1>>, 3, 1, 1)}

MotionMenu(n) ==
    IF n = SingleStepper
    THEN {Move(<<1>>, 4, 0, 0), Move(<<1>>, 0, 0, 0),
          Move(<<1>>, 3, 1, 0), Move(<<-1>>, 5, 1, 0), Move(<<1>>, 5, 1, 1)}
    ELSE {Move(<<1, 0, -1>>, 4, 0, 0), Move(<<-1, 1, 1>>, 5, 1, 0)}

\* The rolling key (line 107): each request carries the next one.
HostRequests == {[move EXCEPT !.key = ToUint8(nRequests + 1)] : move \in host.menu}

(***************************************************************************)
(* Power-on state: the globals' initialisers and userSetup().              *)
(***************************************************************************)
EmptySegment(n) ==
    [stepper_target |-> [i \in 0 .. (n - 1) |-> 0], segmentTime |-> 0, segmentKey |-> 0,
     absoluteMove |-> 0, waitForSync |-> 0]

EmptyStepperState ==
    [stepsRemaining |-> 0, targetSteps |-> 0, bresenhamAccumulator |-> 0, direction |-> 0]

NoLocals ==
    [newWritePosition |-> 0, stepperIndex |-> 0, success |-> 0, responsePort |-> 0,
     statusCode |-> 0, byteIndex |-> 0, value |-> 0, txBuffer |-> <<>>,
     newSyncSearchPosition |-> 0, packetIndex |-> 0,
     \* history: the request being handled, whether the buffer held
     \* motionBuffer_length - 1 segments at the full test, and idleRun's tick
     \* count when the handler began (-1: no idleRun)
     request |-> NoRequest, fullAtTest |-> FALSE, ticksAtStart |-> -1]

NoLoad == [request |-> NoRequest, segment |-> EmptySegment(0), position |-> <<>>,
           moved |-> FALSE]

NoRun == [request |-> NoRequest, position |-> <<>>, ticks |-> 0]

PowerOn(n, h) ==
    /\ node = n
    /\ host = h
    /\ TCNT1 = 0
    /\ motionBuffer = [s \in Slots |-> EmptySegment(SteppersOn(n))]
    /\ motionBuffer_readPosition = 0
    /\ motionBuffer_writePosition = 0
    /\ motionBuffer_syncSearchPosition = 0
    /\ activeSegment_stepperStates = [i \in 0 .. (SteppersOn(n) - 1) |-> EmptyStepperState]
    /\ activeSegment_bresenhamTriggerThreshold = 0
    /\ activeSegment_timeRemaining = 0
    /\ activeSegment_totalTime = 0
    /\ activeSegment_segmentKey = 0
    /\ waitingForSync = 0
    /\ stepperPositions = [i \in 0 .. (SteppersOn(n) - 1) |-> 0]
    /\ driversEnabled = [i \in 0 .. (SteppersOn(n) - 1) |-> FALSE]
    /\ directionPins = [i \in 0 .. (SteppersOn(n) - 1) |-> 0]
    /\ pc = "idle"
    /\ rxBuffer = <<>>
    /\ local = NoLocals
    /\ pending = <<>>
    /\ cur = NoLoad
    /\ preempted = FALSE
    /\ pulses = [i \in 0 .. (SteppersOn(n) - 1) |-> 0]
    /\ motorPosition = [i \in 0 .. (SteppersOn(n) - 1) |-> 0]
    /\ nRequests = 0
    /\ rejected = {}
    /\ allAbsolute = TRUE
    /\ idleRun = NoRun
    /\ sinceSync = -1
    /\ steppedInRead = FALSE
    /\ ignoredPort = 0
    /\ underflowed = FALSE

Nodes == {SingleStepper, MagicMill}

Host(menu, max) ==
    [menu |-> menu, max |-> max, flow |-> FALSE, credit |-> 0, timed |-> FALSE,
     codec |-> <<>>, ports |-> 8 .. 15]

Init == \E n \in Nodes : PowerOn(n, Host(RingMenu(n), MaxRequests))

InitMotion == \E n \in Nodes : PowerOn(n, Host(MotionMenu(n), MaxMoves))

(***************************************************************************)
(* Foreground.                                                             *)
(***************************************************************************)

WrapIndex(position) == IF position = motionBuffer_length THEN 0 ELSE position

\* Variant: the full test one slot early.
BufferFull_early(newWritePosition, readPosition) ==
    \/ newWritePosition = readPosition
    \/ WrapIndex(newWritePosition + 1) = readPosition

\* Variant: no full test.
BufferFull_never(newWritePosition, readPosition) == FALSE

\* The full test of lines 349 / 419.
BufferFull(newWritePosition, readPosition) == newWritePosition = readPosition

\* transmitStatus(responsePort, statusCode), line 434: the status byte.
BeginStatus(responsePort, statusCode) ==
    [local EXCEPT !.responsePort = responsePort, !.statusCode = statusCode,
                  !.txBuffer = <<statusCode, 0, 0, 0, 0, 0, 0>>,
                  !.byteIndex = 0, !.value = 0]

\* Variant: the counter reset by every sync.
CounterAfterSync_always(waiting, counter) == 0

\* svc_sync, lines 489-491: the counter restarts if the step generator waits.
CounterAfterSync(waiting, counter) == IF waiting # 0 THEN 0 ELSE counter

\* Variant: a sync case in the switch of every node.
RoutesSync_everyNode(n) == TRUE

\* The switch of the 1-axis node has a case for gestaltPort_sync (line 526);
\* the switch of the 3-axis node (096-001b.cpp, lines 654-672) has none.
RoutesSync(n) == n = SingleStepper

\* userPacketRouter: the switch over destinationPort.
userPacketRouter(destinationPort) ==
    /\ pc = "idle"
    /\ \/ /\ destinationPort = gestaltPort_stepRequest
          /\ nRequests < host.max
          /\ host.flow => host.credit > 0
          /\ \E req \in HostRequests :
                /\ rxBuffer' = StepRequestPayload(req)
                /\ local' = [NoLocals EXCEPT !.request = req]
          /\ nRequests' = nRequests + 1
          /\ host' = IF host.flow THEN [host EXCEPT !.credit = @ - 1] ELSE host
          /\ pc' = "loadSegmentIntoMotionBuffer"
          /\ UNCHANGED <<TCNT1, sinceSync>>
       \/ /\ destinationPort = gestaltPort_getStatus
          /\ rxBuffer' = <<>>
          /\ local' = [BeginStatus(gestaltPort_getStatus, 1)
                           EXCEPT !.ticksAtStart = IF idleRun = NoRun THEN -1
                                                   ELSE idleRun.ticks]
          /\ pc' = "transmitStatus_435"
          /\ UNCHANGED <<host, TCNT1, nRequests, sinceSync>>
       \/ /\ destinationPort = gestaltPort_sync
          /\ RoutesSync(node)
          /\ rxBuffer' = <<>>
          /\ local' = NoLocals
          \* svc_sync, lines 489-491
          /\ TCNT1' = CounterAfterSync(waitingForSync, TCNT1)
          /\ sinceSync' = IF host.timed /\ waitingForSync = 1 THEN 0 ELSE sinceSync
          /\ pc' = "svc_sync_492"
          /\ UNCHANGED <<host, nRequests>>
    /\ preempted' = FALSE
    /\ ignoredPort' = 0
    /\ UNCHANGED <<node, underflowed, progVars, pending, cur, pulses, motorPosition, rejected,
                   allAbsolute, idleRun, steppedInRead>>

\* Variant: the target stored as sent, in host steps.
StoredTarget_hostSteps(hostSteps) == hostSteps

\* Line 357 / 427: the target as stored, shifted to internal microsteps.
StoredTarget(hostSteps) == ShiftLeft32(hostSteps, smoothingMicrosteppingBits)

\* Variant: the write head advanced first, the slot's fields after it.
loadSegmentIntoMotionBuffer_order_headFirst ==
    <<"loadSegmentIntoMotionBuffer_365", "loadSegmentIntoMotionBuffer_357",
      "loadSegmentIntoMotionBuffer_360", "loadSegmentIntoMotionBuffer_361",
      "loadSegmentIntoMotionBuffer_362", "loadSegmentIntoMotionBuffer_363">>

\* The statements of loadSegmentIntoMotionBuffer after the full test, in
\* program order: the slot's fields, and the write head last.
loadSegmentIntoMotionBuffer_order ==
    <<"loadSegmentIntoMotionBuffer_357", "loadSegmentIntoMotionBuffer_360",
      "loadSegmentIntoMotionBuffer_361", "loadSegmentIntoMotionBuffer_362",
      "loadSegmentIntoMotionBuffer_363", "loadSegmentIntoMotionBuffer_365">>

\* loadSegmentIntoMotionBuffer, lines 345-351: the tentative write position and
\* the full test, which reads motionBuffer_readPosition once.
loadSegmentIntoMotionBuffer_349 ==
    /\ pc = "loadSegmentIntoMotionBuffer"
    /\ LET newWritePosition == WrapIndex(motionBuffer_writePosition + 1)
           fullAtTest == Len(pending) = motionBuffer_length - 1
       IN  IF BufferFull(newWritePosition, motionBuffer_readPosition)
           THEN /\ local' = [BeginStatus(gestaltPort_stepRequest, 0)
                                EXCEPT !.newWritePosition = newWritePosition,
                                       !.success = 0, !.fullAtTest = fullAtTest]
                /\ rejected' = rejected \cup {local.request.key}
                /\ pc' = "transmitStatus_435"
           ELSE /\ local' = [local EXCEPT !.newWritePosition = newWritePosition,
                                          !.stepperIndex = 0, !.fullAtTest = fullAtTest]
                /\ UNCHANGED rejected
                /\ pc' = loadSegmentIntoMotionBuffer_order[1]
    /\ UNCHANGED <<node, ignoredPort, underflowed,
                   host, TCNT1, progVars, rxBuffer, pending, cur, preempted, pulses,
                   motorPosition, nRequests, allAbsolute, idleRun, steppedInRead,
                   sinceSync>>

\* After statement `label`: the next statement, or "return 1" and
\* svc_stepRequest's transmitStatus(gestaltPort_stepRequest, success).
Continue(label, locals) ==
    LET order == loadSegmentIntoMotionBuffer_order
        k == CHOOSE j \in 1 .. Len(order) : order[j] = label
    IN  IF k < Len(order)
        THEN /\ pc' = order[k + 1]
             /\ local' = locals
        ELSE /\ pc' = "transmitStatus_435"
             /\ local' = [BeginStatus(gestaltPort_stepRequest, 1) EXCEPT !.success = 1]

\* Index into the payload of the byte after the N targets.
PacketIndex == 3 * numberOfSteppersOnNode

\* Variant: access, then increment.
SlotToWrite_beforeAdvance(newWritePosition) == motionBuffer_writePosition

\* Lines 357-363: the slot written is the one past the write head.
SlotToWrite(newWritePosition) == newWritePosition

WriteSlot(field, value) ==
    /\ motionBuffer' = [motionBuffer EXCEPT ![SlotToWrite(local.newWritePosition)][field] = value]
    /\ UNCHANGED <<node, host, TCNT1, motionBuffer_readPosition, motionBuffer_writePosition,
                   motionBuffer_syncSearchPosition, activeSegment_stepperStates,
                   activeSegment_bresenhamTriggerThreshold, activeSegment_timeRemaining,
                   activeSegment_totalTime, activeSegment_segmentKey, waitingForSync,
                   stepperPositions, driversEnabled, directionPins, rxBuffer, histVars>>

loadSegmentIntoMotionBuffer_357 ==
    /\ pc = "loadSegmentIntoMotionBuffer_357"
    /\ LET stepperIndex == local.stepperIndex
           value == StoredTarget(readRxBuffer_int24(rxBuffer, 3 * stepperIndex))
       IN  /\ WriteSlot("stepper_target",
                        [motionBuffer[SlotToWrite(local.newWritePosition)].stepper_target
                            EXCEPT ![stepperIndex] = value])
           /\ IF stepperIndex + 1 < numberOfSteppersOnNode
              THEN /\ pc' = pc
                   /\ local' = [local EXCEPT !.stepperIndex = stepperIndex + 1]
              ELSE Continue(pc, [local EXCEPT !.stepperIndex = stepperIndex + 1])

loadSegmentIntoMotionBuffer_360 ==
    /\ pc = "loadSegmentIntoMotionBuffer_360"
    /\ WriteSlot("segmentTime", readRxBuffer_uint24(rxBuffer, PacketIndex))
    /\ Continue(pc, local)

loadSegmentIntoMotionBuffer_361 ==
    /\ pc = "loadSegmentIntoMotionBuffer_361"
    /\ WriteSlot("segmentKey", rxBuffer[PacketIndex + 3 + 1])
    /\ Continue(pc, local)

loadSegmentIntoMotionBuffer_362 ==
    /\ pc = "loadSegmentIntoMotionBuffer_362"
    /\ WriteSlot("absoluteMove", rxBuffer[PacketIndex + 4 + 1])
    /\ Continue(pc, local)

loadSegmentIntoMotionBuffer_363 ==
    /\ pc = "loadSegmentIntoMotionBuffer_363"
    /\ WriteSlot("waitForSync", rxBuffer[PacketIndex + 5 + 1])
    /\ Continue(pc, local)

\* Line 365: the write head advances; from here on the request is accepted.
loadSegmentIntoMotionBuffer_365 ==
    /\ pc = "loadSegmentIntoMotionBuffer_365"
    /\ motionBuffer_writePosition' = local.newWritePosition
    /\ Continue(pc, local)
    /\ pending' = Append(pending, [request |-> local.request, moved |-> FALSE])
    /\ allAbsolute' = (allAbsolute /\ local.request.absolute = 1)
    /\ idleRun' = IF /\ motionBuffer_readPosition = motionBuffer_writePosition
                     /\ activeSegment_timeRemaining = 0
                     /\ local.request.absolute = 0
                     /\ local.request.waitForSync = 0
                  THEN [request |-> local.request, position |-> stepperPositions,
                        ticks |-> 0]
                  ELSE NoRun
    /\ UNCHANGED <<node, ignoredPort, underflowed,
                   host, TCNT1, motionBuffer, isrVars, rxBuffer, cur, preempted, pulses,
                   motorPosition, nRequests, rejected, steppedInRead, sinceSync>>

(***************************************************************************)
(* transmitStatus.  Line 436 passes the volatile uint32_t                  *)
(* activeSegment_timeRemaining by value: four single-byte loads, low byte  *)
(* first, with the interrupt free to fire between them.                    *)
(***************************************************************************)
transmitStatus_435 ==
    /\ pc = "transmitStatus_435"
    /\ local' = [local EXCEPT !.txBuffer[2] = activeSegment_segmentKey]
    /\ pc' = "transmitStatus_436"
    /\ UNCHANGED <<node, host, TCNT1, progVars, rxBuffer, histVars>>

transmitStatus_436 ==
    /\ pc = "transmitStatus_436"
    /\ LET k == local.byteIndex
           value == local.value + ByteOf(activeSegment_timeRemaining, k) * Pow2(8 * k)
       IN  IF k < 3
           THEN /\ local' = [local EXCEPT !.byteIndex = k + 1, !.value = value]
                /\ pc' = pc
           ELSE /\ local' = [local EXCEPT !.byteIndex = 0, !.value = value,
                                 !.txBuffer = writeTxBuffer_uint24(@, value, 2)]
                /\ pc' = "transmitStatus_437"
    /\ UNCHANGED <<node, host, TCNT1, progVars, rxBuffer, histVars>>

\* Variant: the write position before the read position.
StatusReply_writeFirst ==
    [local.txBuffer EXCEPT ![6] = motionBuffer_writePosition,
                           ![7] = motionBuffer_readPosition]

\* Lines 437-439: the buffer positions, and transmitUnicastPacket(responsePort, 7).
\* StatusReply is the 7-byte payload this step sends to local.responsePort.
StatusReply ==
    [local.txBuffer EXCEPT ![6] = motionBuffer_readPosition,
                           ![7] = motionBuffer_writePosition]

\* Variant: the slot the ring keeps empty counted as free.
FreeSlots_plusOne(reply) == ((reply[6] - reply[7] - 1) % motionBuffer_length) + 1

\* The host's reading of a status reply: the requests the buffer has room for.
FreeSlots(reply) == (reply[6] - reply[7] - 1) % motionBuffer_length

transmitStatus_437 ==
    /\ pc = "transmitStatus_437"
    /\ pc' = "idle"
    /\ local' = NoLocals
    /\ rxBuffer' = <<>>
    /\ preempted' = FALSE
    /\ host' = IF host.flow THEN [host EXCEPT !.credit = FreeSlots(StatusReply)] ELSE host
    /\ UNCHANGED <<node, ignoredPort, underflowed,
                   TCNT1, progVars, pending, cur, pulses, motorPosition, nRequests,
                   rejected, allAbsolute, idleRun, steppedInRead, sinceSync>>

(***************************************************************************)
(* svc_sync.  The scan of lines 493-502 reads only motionBuffer_writePosition *)
(* and slots' waitForSync, which the foreground alone writes, so it runs   *)
(* together with the store that ends it.  The timer counter reset of      *)
(* lines 489-491 is part of the step that takes the packet.                *)
(***************************************************************************)
\* Variant: the scan stops at the first slot, whatever its flag.
ScanPasses_none(segment) == FALSE

\* Line 502: the scan goes on past a slot that does not wait.
ScanPasses(segment) == segment.waitForSync # 1

\* Variant: the scan gives up where it starts.
ScanDone_atOnce(newSyncSearchPosition) == TRUE

\* Line 493: the scan ends at the write head.
ScanDone(newSyncSearchPosition) == newSyncSearchPosition = motionBuffer_writePosition

RECURSIVE SyncScan(_)
SyncScan(newSyncSearchPosition) ==
    IF ScanDone(newSyncSearchPosition)
    THEN [position |-> newSyncSearchPosition, found |-> FALSE]
    ELSE LET next == WrapIndex(newSyncSearchPosition + 1)
         IN  IF ScanPasses(motionBuffer[next])
             THEN SyncScan(next)
             ELSE [position |-> next, found |-> TRUE]

svc_sync_492 ==
    /\ pc = "svc_sync_492"
    /\ local' = [local EXCEPT !.newSyncSearchPosition = motionBuffer_syncSearchPosition]
    /\ pc' = "svc_sync_503"
    /\ UNCHANGED <<node, host, TCNT1, progVars, rxBuffer, histVars>>

\* Lines 493-503: the scan, then the store to motionBuffer_syncSearchPosition,
\* by line 495 (nothing is waiting: return) or by line 503.
svc_sync_503 ==
    /\ pc = "svc_sync_503"
    /\ LET scan == SyncScan(local.newSyncSearchPosition)
       IN  /\ motionBuffer_syncSearchPosition' = scan.position
           /\ IF scan.found
              THEN /\ local' = [local EXCEPT !.newSyncSearchPosition = scan.position]
                   /\ pc' = "svc_sync_504"
                   /\ UNCHANGED rxBuffer
              ELSE /\ local' = NoLocals
                   /\ pc' = "idle"
                   /\ rxBuffer' = <<>>
    /\ preempted' = (preempted /\ pc' # "idle")
    /\ UNCHANGED <<node, host, TCNT1, motionBuffer, motionBuffer_readPosition,
                   motionBuffer_writePosition, activeSegment_stepperStates,
                   activeSegment_bresenhamTriggerThreshold, activeSegment_timeRemaining,
                   activeSegment_totalTime, activeSegment_segmentKey, waitingForSync,
                   stepperPositions, driversEnabled, directionPins, histRest>>

\* Line 504: the waiting segment is released.
svc_sync_504 ==
    /\ pc = "svc_sync_504"
    /\ motionBuffer' = [motionBuffer EXCEPT ![local.newSyncSearchPosition].waitForSync = 0]
    /\ local' = NoLocals
    /\ pc' = "idle"
    /\ rxBuffer' = <<>>
    /\ preempted' = FALSE
    /\ UNCHANGED <<node, host, TCNT1, motionBuffer_readPosition, motionBuffer_writePosition,
                   motionBuffer_syncSearchPosition, activeSegment_stepperStates,
                   activeSegment_bresenhamTriggerThreshold, activeSegment_timeRemaining,
                   activeSegment_totalTime, activeSegment_segmentKey, waitingForSync,
                   stepperPositions, driversEnabled, directionPins, histRest>>

(***************************************************************************)
(* loadSegmentIntoStepGenerator, called from the interrupt.                *)
(***************************************************************************)
\* Variant: every target taken as relative.
SegmentDelta_relative(segment, stepperIndex, positions) ==
    segment.stepper_target[stepperIndex]

\* Lines 401-404: the move of one stepper, relative to `positions` when absolute.
SegmentDelta(segment, stepperIndex, positions) ==
    IF segment.absoluteMove = 1
    THEN segment.stepper_target[stepperIndex] - positions[stepperIndex]
    ELSE segment.stepper_target[stepperIndex]

\* Variant: the magnitude is taken, the direction is always forward.
LoadedStepperState_forward(delta) ==
    [stepsRemaining |-> IF delta > 0 THEN delta ELSE -delta,
     targetSteps |-> IF delta > 0 THEN delta ELSE -delta,
     bresenhamAccumulator |-> 0, direction |-> 1]

\* Lines 405-416: direction and magnitude.
LoadedStepperState(delta) ==
    IF delta > 0
    THEN [stepsRemaining |-> delta, targetSteps |-> delta, bresenhamAccumulator |-> 0,
          direction |-> 1]
    ELSE [stepsRemaining |-> -delta, targetSteps |-> -delta, bresenhamAccumulator |-> 0,
          direction |-> -1]

\* setStepDirection(stepperIndex, delta > 0): 1 = forward, 0 = reverse.
LoadedDirectionPin(delta) == IF delta > 0 THEN 1 ELSE 0

\* Variant: the whole segment time as the threshold.
LoadedThreshold_whole(segment) == segment.segmentTime

\* Line 422: half the segment time.
LoadedThreshold(segment) == ShiftRight32(segment.segmentTime, 1)

\* Variant: one tick more than the segment asks for.
LoadedTimeRemaining_oneMore(segment) == segment.segmentTime + 1

\* Line 425: the store that arms the step generator.
LoadedTimeRemaining(segment) == segment.segmentTime

\* Variant: the flag is not looked at.
WaitsForSync_never(segment) == FALSE

\* Line 382: the segment waits for a sync.
WaitsForSync(segment) == segment.waitForSync = 1

\* Variant: access, then increment.
SegmentToLoad_beforeAdvance(newReadPosition) == motionBuffer[motionBuffer_readPosition]

\* Lines 395-401: the read head advances, and the slot it then names is loaded.
SegmentToLoad(newReadPosition) == motionBuffer[newReadPosition]

\* Variant: the load leaves the sync search position where it is.
SyncSearchAfterLoad_kept(newReadPosition) == motionBuffer_syncSearchPosition

\* Lines 390-392: the sync search position follows the read head it stands on.
SyncSearchAfterLoad(newReadPosition) ==
    IF motionBuffer_syncSearchPosition = motionBuffer_readPosition
    THEN newReadPosition
    ELSE motionBuffer_syncSearchPosition

\* What a call leaves in the variables it writes, with the steppers at `positions`.
loadSegmentIntoStepGenerator(positions, states, pins) ==
    LET newReadPosition == WrapIndex(motionBuffer_readPosition + 1)
        segment == SegmentToLoad(newReadPosition)
        keep == [result |-> 0,
                 waitingForSync |-> waitingForSync,
                 syncSearchPosition |-> motionBuffer_syncSearchPosition,
                 readPosition |-> motionBuffer_readPosition,
                 stepperStates |-> states,
                 directionPins |-> pins,
                 segmentKey |-> activeSegment_segmentKey,
                 threshold |-> activeSegment_bresenhamTriggerThreshold,
                 totalTime |-> activeSegment_totalTime,
                 timeRemaining |-> 0]
    IN  IF motionBuffer_readPosition = motionBuffer_writePosition
        THEN keep
        ELSE IF WaitsForSync(segment)
        THEN [keep EXCEPT !.waitingForSync = 1]
        ELSE [result |-> 1,
              waitingForSync |-> 0,
              syncSearchPosition |-> SyncSearchAfterLoad(newReadPosition),
              readPosition |-> newReadPosition,
              stepperStates |->
                  [i \in Steppers |-> LoadedStepperState(SegmentDelta(segment, i, positions))],
              directionPins |->
                  [i \in Steppers |-> LoadedDirectionPin(SegmentDelta(segment, i, positions))],
              segmentKey |-> segment.segmentKey,
              threshold |-> LoadedThreshold(segment),
              totalTime |-> segment.segmentTime,
              timeRemaining |-> LoadedTimeRemaining(segment)]

(***************************************************************************)
(* ISR(TIMER1_COMPA_vect).                                                 *)
(***************************************************************************)
\* Variant: a step as soon as the accumulator reaches the threshold.
StepTriggered_atThreshold(accumulator, threshold) == accumulator >= threshold

\* Line 542: the step trigger.
StepTriggered(accumulator, threshold) == accumulator > threshold

\* Variant: a step leaves stepsRemaining as it is.
StepperTick_uncounted(state, threshold, totalTime) ==
    LET accumulator == state.bresenhamAccumulator + state.targetSteps
    IN  IF StepTriggered(accumulator, threshold)
        THEN [state |-> [state EXCEPT !.bresenhamAccumulator = accumulator - totalTime],
              step |-> TRUE]
        ELSE [state |-> [state EXCEPT !.bresenhamAccumulator = accumulator],
              step |-> FALSE]

\* Lines 541-546 for one stepper: its state after the tick, and whether it steps.
StepperTick(state, threshold, totalTime) ==
    LET accumulator == state.bresenhamAccumulator + state.targetSteps
    IN  IF StepTriggered(accumulator, threshold)
        THEN [state |-> [state EXCEPT !.bresenhamAccumulator = accumulator - totalTime,
                                      !.stepsRemaining = @ - 1],
              step |-> TRUE]
        ELSE [state |-> [state EXCEPT !.bresenhamAccumulator = accumulator],
              step |-> FALSE]

\* Variant: the ledger counts pulses, whatever their direction.
PositionAfterStep_forward(position, direction) == position + 1

\* Line 546: the position ledger after a step.
PositionAfterStep(position, direction) == position + direction

\* Variant: the loader reads the positions from before the call's stepping.
PositionsAtLoad_beforeTick(beforeTick, afterTick) == beforeTick

\* Lines 534-552: the loader runs after the stepping of the same call, and reads
\* the positions that stepping left.
PositionsAtLoad(beforeTick, afterTick) == afterTick

\* What one pulse of the step pin moves the motor by, from its direction pin.
PinDirection(pin) == IF pin = 1 THEN 1 ELSE -1

\* History: the queued requests, marked once a pulse is emitted while they wait.
RECURSIVE MarkMoved(_, _)
MarkMoved(queue, pulsed) ==
    IF queue = <<>> THEN <<>>
    ELSE <<[Head(queue) EXCEPT !.moved = @ \/ pulsed]>> \o MarkMoved(Tail(queue), pulsed)

\* Variant: a stepper whose driver is disabled takes no step.
Stepped_whileEnabled(triggered, enabled) == triggered /\ enabled

\* Lines 542-549: a triggered stepper is put in the step mask and stepped;
\* nothing in the interrupt reads the enable pins.
Stepped(triggered, enabled) == triggered

\* Variant: the stepping is done whatever the time remaining.
SomethingToDo_always(timeRemaining) == TRUE

\* Line 534: the stepping is done while there is time remaining.
SomethingToDo(timeRemaining) == timeRemaining > 0

\* Variant: a load leaves the enable pins as they are.
DriversAfterLoad_asLeft(loaded, enabled) == enabled

\* Lines 552-554: enableAllDrivers() after a load.
DriversAfterLoad(loaded, enabled) == [i \in Steppers |-> loaded \/ enabled[i]]

\* Variant: the loader called only by a call that found the time remaining at 0.
Expired_atEntry(atEntry, afterStepping) == atEntry = 0

\* Line 551: the test that calls the loader, made after the stepping of the
\* same call.
Expired(atEntry, afterStepping) == afterStepping = 0

\* The interrupt is raised when the counter matches OCR1A = stepGenerator_timeBase
\* (lines 165-167: clear timer on compare, CLK/1), and the counter restarts.
\* svc_getPosition between its first load of a position and its reply.
ReadingPositions == pc \in {"svc_getPosition_475", "svc_getPosition_478"}

ISR_TIMER1_COMPA ==
  /\ host.timed => TCNT1 = stepGenerator_timeBase
  /\ TCNT1' = 0
  /\
    LET running == SomethingToDo(activeSegment_timeRemaining)
        timeRemaining == IF running THEN activeSegment_timeRemaining - 1
                         ELSE activeSegment_timeRemaining
        tick == [i \in Steppers |->
                    StepperTick(activeSegment_stepperStates[i],
                                activeSegment_bresenhamTriggerThreshold,
                                activeSegment_totalTime)]
        stepMask == IF running
                    THEN {i \in Steppers : Stepped(tick[i].step, driversEnabled[i])}
                    ELSE {}
        states == IF running THEN [i \in Steppers |-> tick[i].state]
                  ELSE activeSegment_stepperStates
        positions == [i \in Steppers |->
                         IF i \in stepMask
                         THEN PositionAfterStep(stepperPositions[i],
                                                activeSegment_stepperStates[i].direction)
                         ELSE stepperPositions[i]]
        expired == Expired(activeSegment_timeRemaining, timeRemaining)
        load == loadSegmentIntoStepGenerator(PositionsAtLoad(stepperPositions, positions),
                                             states, directionPins)
        loaded == expired /\ load.result = 1
    IN  /\ stepperPositions' = positions
        \* step(stepMask), line 549
        /\ motorPosition' = [i \in Steppers |->
                                IF i \in stepMask
                                THEN motorPosition[i] + PinDirection(directionPins[i])
                                ELSE motorPosition[i]]
        \* lines 551-555
        /\ activeSegment_timeRemaining' = IF expired THEN load.timeRemaining ELSE timeRemaining
        /\ activeSegment_stepperStates' = IF expired THEN load.stepperStates ELSE states
        /\ directionPins' = IF expired THEN load.directionPins ELSE directionPins
        /\ activeSegment_segmentKey' =
               IF expired THEN load.segmentKey ELSE activeSegment_segmentKey
        /\ activeSegment_bresenhamTriggerThreshold' =
               IF expired THEN load.threshold ELSE activeSegment_bresenhamTriggerThreshold
        /\ activeSegment_totalTime' =
               IF expired THEN load.totalTime ELSE activeSegment_totalTime
        /\ waitingForSync' = IF expired THEN load.waitingForSync ELSE waitingForSync
        /\ motionBuffer_readPosition' =
               IF expired THEN load.readPosition ELSE motionBuffer_readPosition
        /\ motionBuffer_syncSearchPosition' =
               IF expired THEN load.syncSearchPosition ELSE motionBuffer_syncSearchPosition
        /\ driversEnabled' = DriversAfterLoad(loaded, driversEnabled)
        \* history
        /\ pulses' = IF loaded THEN [i \in Steppers |-> 0]
                     ELSE [i \in Steppers |-> pulses[i] + IF i \in stepMask THEN 1 ELSE 0]
        /\ cur' = IF loaded
                  THEN [request |-> IF pending = <<>> THEN NoRequest ELSE Head(pending).request,
                        segment |-> SegmentToLoad(load.readPosition),
                        position |-> positions,
                        moved |-> pending # <<>> /\ Head(pending).moved]
                  ELSE cur
        /\ preempted' = (preempted \/ (loaded /\ pc # "idle"))
        /\ pending' = MarkMoved(IF loaded /\ pending # <<>> THEN Tail(pending)
                                ELSE pending, stepMask # {})
        /\ idleRun' = IF idleRun = NoRun THEN NoRun
                      ELSE [idleRun EXCEPT
                               !.ticks = IF @ > idleRun.request.time THEN @ ELSE @ + 1]
        /\ sinceSync' = -1
        /\ underflowed' = (/\ host.timed
                           /\ activeSegment_timeRemaining = 0
                           /\ motionBuffer_readPosition = motionBuffer_writePosition)
        /\ steppedInRead' = (steppedInRead \/ (stepMask # {} /\ ReadingPositions))
        /\ UNCHANGED <<node, ignoredPort, host, motionBuffer, motionBuffer_writePosition, fgVars,
                       nRequests, rejected, allAbsolute>>

Next ==
    \/ \E destinationPort \in {gestaltPort_stepRequest, gestaltPort_getStatus,
                               gestaltPort_sync} : userPacketRouter(destinationPort)
    \/ loadSegmentIntoMotionBuffer_349
    \/ loadSegmentIntoMotionBuffer_357
    \/ loadSegmentIntoMotionBuffer_360
    \/ loadSegmentIntoMotionBuffer_361
    \/ loadSegmentIntoMotionBuffer_362
    \/ loadSegmentIntoMotionBuffer_363
    \/ loadSegmentIntoMotionBuffer_365
    \/ transmitStatus_435
    \/ transmitStatus_436
    \/ transmitStatus_437
    \/ svc_sync_492
    \/ svc_sync_503
    \/ svc_sync_504
    \/ ISR_TIMER1_COMPA

Spec == Init /\ [][Next]_vars

SpecMotion == InitMotion /\ [][Next]_vars

(***************************************************************************)
(* The 24-bit codec on its own: a value is written to the transmit buffer  *)
(* at a payload offset, the bytes are presented at the same offset of the  *)
(* receive buffer, and the value is read back.  host.codec is the input:   *)
(* whether the value is signed, the value, the payload offset.             *)
(***************************************************************************)
CodecInt24s ==
    {-8388608, -8388607, -65537, -65536, -65535, -32769, -32768, -257, -256, -255, -129,
     -128, -127, -2, -1, 0, 1, 2, 127, 128, 129, 255, 256, 257, 32767, 32768, 65535,
     65536, 65537, 8388606, 8388607}

CodecUint24s ==
    {0, 1, 127, 128, 255, 256, 257, 65535, 65536, 65537, 8388607, 8388608, 8388609,
     16777214, 16777215}

CodecOffsets == {0, 3, 6}

CodecBuffer == [k \in 1 .. 9 |-> 0]

InitCodec ==
    \E payloadIndex \in CodecOffsets :
       \/ \E value \in CodecInt24s :
             PowerOn(SingleStepper,
                     [Host({}, 0) EXCEPT !.codec = <<TRUE, value, payloadIndex>>])
       \/ \E value \in CodecUint24s :
             PowerOn(SingleStepper,
                     [Host({}, 0) EXCEPT !.codec = <<FALSE, value, payloadIndex>>])

\* writeTxBuffer_int24 / writeTxBuffer_uint24, lines 290-302.
writeTxBuffer ==
    /\ pc = "idle"
    /\ host.codec # <<>>
    /\ local' = [local EXCEPT
                    !.txBuffer = IF host.codec[1]
                                 THEN writeTxBuffer_int24(CodecBuffer, host.codec[2],
                                                          host.codec[3])
                                 ELSE writeTxBuffer_uint24(CodecBuffer, host.codec[2],
                                                           host.codec[3])]
    /\ pc' = "readRxBuffer"
    /\ UNCHANGED <<node, host, TCNT1, progVars, rxBuffer, histVars>>

\* readRxBuffer_int24 / readRxBuffer_uint24, lines 304-322, of the bytes written.
readRxBuffer ==
    /\ pc = "readRxBuffer"
    /\ rxBuffer' = local.txBuffer
    /\ local' = [local EXCEPT
                    !.value = IF host.codec[1]
                              THEN readRxBuffer_int24(local.txBuffer, host.codec[3])
                              ELSE readRxBuffer_uint24(local.txBuffer, host.codec[3])]
    /\ pc' = "codecDone"
    /\ UNCHANGED <<node, host, TCNT1, progVars, histVars>>

NextCodec == writeTxBuffer \/ readRxBuffer

SpecCodec == InitCodec /\ [][NextCodec]_vars

(***************************************************************************)
(* A host that sizes its enqueues against the buffer: it sends a           *)
(* stepRequest only while the free space of the last status reply, less    *)
(* the requests sent since, is not used up.                                *)
(***************************************************************************)
InitFlow ==
    \E n \in Nodes : PowerOn(n, [Host(RingMenu(n), MaxFlowRequests) EXCEPT !.flow = TRUE])

SpecFlow == InitFlow /\ [][Next]_vars

(***************************************************************************)
(* The 1-axis node with the counts of timer 1 told apart: the counter      *)
(* counts up between the steps of the foreground, and the interrupt is     *)
(* raised at the compare match only.                                       *)
(***************************************************************************)
TimerMenu == {Move(<<1>>, 2, 0, 1), Move(<<-1>>, 1, 0, 0)}

InitTimer ==
    PowerOn(SingleStepper, [Host(TimerMenu, MaxTimed) EXCEPT !.timed = TRUE])

\* svc_sync between its reset of the counter and its return.
SyncAfterReset == pc \in {"svc_sync_492", "svc_sync_503", "svc_sync_504"} /\ sinceSync >= 0

\* One count of the timer's clock (CLK/1, line 166).  svc_sync is a handful
\* of instructions against the stepGenerator_timeBase counts of one period,
\* so the compare match does not come between its reset and its return.
TIMER1_count ==
    /\ host.timed
    /\ TCNT1 < stepGenerator_timeBase
    /\ SyncAfterReset => TCNT1 + 1 < stepGenerator_timeBase
    /\ TCNT1' = TCNT1 + 1
    /\ sinceSync' = IF sinceSync >= 0 THEN sinceSync + 1 ELSE sinceSync
    /\ UNCHANGED <<node, ignoredPort, underflowed,
                   host, progVars, fgVars, pending, cur, pulses, motorPosition,
                   nRequests, rejected, allAbsolute, idleRun, steppedInRead, preempted>>

NextTimer == Next \/ TIMER1_count

SpecTimer == InitTimer /\ [][NextTimer]_vars

(***************************************************************************)
(* The other cases of the switch, and a packet for a port the switch has   *)
(* no case for.  Port 11 is gestaltPort_getVRef on the 1-axis node and     *)
(* gestaltPort_setVRef on the 3-axis node (096-001b.cpp, line 122); the    *)
(* 3-axis node's switch has no case for gestaltPort_sync.                  *)
(***************************************************************************)
RoutedPorts ==
    {gestaltPort_getVRef, gestaltPort_enableDrivers, gestaltPort_stepRequest,
     gestaltPort_getPosition, gestaltPort_getStatus}
        \cup (IF RoutesSync(node) THEN {gestaltPort_sync} ELSE {})

\* The ports packets are sent to: the routed ones and two more.
PortsSent == 8 .. 15

\* The payload bytes of enableDrivers the model draws from.
EnableBytes == {0, 1, 255}

\* The conversion results of the 10-bit ADC the model draws from.
VRefReadings == {0, 1023}

\* The results of a TWI transfer the model draws from: done, or an error code.
TWIResults == {0, 1}

\* Byte k of an int32_t as a summand of its value: the top byte carries the sign.
Int32Summand(byte, k) ==
    (IF k = 3 /\ byte >= 128 THEN byte - 256 ELSE byte) * Pow2(8 * k)

userPacketRouter_others(destinationPort) ==
    /\ pc = "idle"
    /\ \/ /\ destinationPort = gestaltPort_getVRef
          /\ IF node = SingleStepper
             THEN \* stepper1_readVRef() and writeTxBuffer_uint16, line 452
                  /\ \E ADCResult \in VRefReadings :
                        local' = [NoLocals EXCEPT
                                     !.txBuffer =
                                         writeTxBuffer_uint16(<<0, 0>>, ADCResult, 0)]
                  /\ pc' = "svc_getVRef_453"
             ELSE \* svc_setReferenceVoltages (096-001b.cpp, lines 565-614): the
                  \* result of the TWI transfer to the potentiometer
                  /\ \E result \in TWIResults :
                        local' = [NoLocals EXCEPT !.txBuffer = <<result>>]
                  /\ pc' = "svc_setReferenceVoltages_613"
          /\ rxBuffer' = <<>>
       \/ /\ destinationPort = gestaltPort_enableDrivers
          /\ \E enable \in EnableBytes : rxBuffer' = <<enable>>
          /\ local' = NoLocals
          /\ pc' = "svc_enableDrivers_458"
       \/ /\ destinationPort = gestaltPort_getPosition
          /\ rxBuffer' = <<>>
          /\ local' = [NoLocals EXCEPT
                          !.txBuffer = [i \in 1 .. 3 * numberOfSteppersOnNode |-> 0]]
          /\ pc' = "svc_getPosition_475"
       \/ \* no case of the switch: the router returns
          /\ destinationPort \notin RoutedPorts
          /\ UNCHANGED fgVars
    /\ destinationPort \in host.ports
    /\ ignoredPort' = IF destinationPort \in RoutedPorts THEN 0 ELSE destinationPort
    /\ UNCHANGED <<node, host, TCNT1, progVars, histKept, preempted>>

\* Line 453: transmitUnicastPacket(gestaltPort_getVRef, 2); on the 3-axis node
\* transmitUnicastPacket(gestaltPort_setVRef, 1) (096-001b.cpp, line 613).
svc_getVRef_453 ==
    /\ pc \in {"svc_getVRef_453", "svc_setReferenceVoltages_613"}
    /\ pc' = "idle"
    /\ local' = NoLocals
    /\ preempted' = FALSE
    /\ UNCHANGED <<node, host, TCNT1, progVars, rxBuffer, histRest>>

\* Variant: enabling the drivers takes the place of the motor as the origin.
svc_enableDrivers_458_homing ==
    /\ pc = "svc_enableDrivers_458"
    /\ driversEnabled' = [driversEnabled EXCEPT ![local.stepperIndex] = rxBuffer[1] # 0]
    /\ stepperPositions' = [stepperPositions EXCEPT ![local.stepperIndex] = 0]
    /\ IF local.stepperIndex + 1 = numberOfSteppersOnNode
       THEN /\ local' = [NoLocals EXCEPT !.responsePort = gestaltPort_enableDrivers]
            /\ pc' = "svc_enableDrivers_463"
       ELSE /\ local' = [local EXCEPT !.stepperIndex = @ + 1]
            /\ pc' = pc
    /\ UNCHANGED <<node, host, TCNT1, motionBuffer, motionBuffer_readPosition,
                   motionBuffer_writePosition, motionBuffer_syncSearchPosition,
                   activeSegment_stepperStates, activeSegment_bresenhamTriggerThreshold,
                   activeSegment_timeRemaining, activeSegment_totalTime,
                   activeSegment_segmentKey, waitingForSync, directionPins,
                   rxBuffer, histVars>>

\* Lines 458-462: enableAllDrivers() or disableAllDrivers() by the payload's
\* first byte, one store to an enable pin per stepper (lines 213-231;
\* 096-001b.cpp, lines 283-295), with the interrupt free to fire between them.
svc_enableDrivers_458 ==
    /\ pc = "svc_enableDrivers_458"
    /\ driversEnabled' = [driversEnabled EXCEPT ![local.stepperIndex] = rxBuffer[1] # 0]
    /\ IF local.stepperIndex + 1 = numberOfSteppersOnNode
       THEN /\ local' = [NoLocals EXCEPT !.responsePort = gestaltPort_enableDrivers]
            /\ pc' = "svc_enableDrivers_463"
       ELSE /\ local' = [local EXCEPT !.stepperIndex = @ + 1]
            /\ pc' = pc
    /\ UNCHANGED <<node, host, TCNT1, motionBuffer, motionBuffer_readPosition,
                   motionBuffer_writePosition, motionBuffer_syncSearchPosition,
                   activeSegment_stepperStates, activeSegment_bresenhamTriggerThreshold,
                   activeSegment_timeRemaining, activeSegment_totalTime,
                   activeSegment_segmentKey, waitingForSync, stepperPositions, directionPins,
                   rxBuffer, histVars>>

\* Line 463: transmitUnicastPacket(gestaltPort_enableDrivers, 0), the empty reply.
svc_enableDrivers_463 ==
    /\ pc = "svc_enableDrivers_463"
    /\ pc' = "idle"
    /\ local' = NoLocals
    /\ rxBuffer' = <<>>
    /\ preempted' = FALSE
    /\ UNCHANGED <<node, host, TCNT1, progVars, histRest>>

\* Line 475: stepperPositions[stepperIndex] is a volatile int32_t, read by four
\* single-byte loads, low byte first, with the interrupt free to fire between
\* them; the value read is shifted and its low three bytes go to the packet.
svc_getPosition_475 ==
    /\ pc = "svc_getPosition_475"
    /\ LET k == local.byteIndex
           value == local.value
                       + Int32Summand(ByteOf(stepperPositions[local.stepperIndex], k), k)
       IN  IF k < 3
           THEN /\ local' = [local EXCEPT !.byteIndex = k + 1, !.value = value]
                /\ pc' = pc
           ELSE /\ local' = [local EXCEPT
                                !.byteIndex = 0, !.value = 0,
                                !.txBuffer = writeTxBuffer_int24(
                                    @, ShiftRight32(value, smoothingMicrosteppingBits),
                                    local.packetIndex),
                                !.packetIndex = @ + 3,
                                !.stepperIndex = @ + 1]
                /\ pc' = IF local.stepperIndex + 1 < numberOfSteppersOnNode
                         THEN pc ELSE "svc_getPosition_478"
    /\ UNCHANGED <<node, host, TCNT1, progVars, rxBuffer, histVars>>

\* Three bytes of a packet read as an int24, the low byte first.
Int24Value(low, mid, high) ==
    low + mid * Pow2(8) + (IF high >= 128 THEN high - 256 ELSE high) * Pow2(16)

\* The payload line 478 sends, as the host reads it: one int24 for each stepper.
PositionReply ==
    [i \in Steppers |->
        Int24Value(local.txBuffer[3 * i + 1], local.txBuffer[3 * i + 2],
                   local.txBuffer[3 * i + 3])]

\* Line 478: transmitUnicastPacket(gestaltPort_getPosition, packetIndex).
svc_getPosition_478 ==
    /\ pc = "svc_getPosition_478"
    /\ pc' = "idle"
    /\ local' = NoLocals
    /\ preempted' = FALSE
    /\ steppedInRead' = FALSE
    /\ UNCHANGED <<node, ignoredPort, underflowed,
                   host, TCNT1, progVars, rxBuffer, pending, cur, pulses,
                   motorPosition, nRequests, rejected, allAbsolute, idleRun, sinceSync>>

NextPorts ==
    \/ Next
    \/ \E destinationPort \in PortsSent : userPacketRouter_others(destinationPort)
    \/ svc_getVRef_453
    \/ svc_enableDrivers_458
    \/ svc_enableDrivers_463
    \/ svc_getPosition_475
    \/ svc_getPosition_478

PortsMenu(n) ==
    IF n = SingleStepper
    THEN {Move(<<1>>, 2, 0, 1), Move(<<-1>>, 4, 1, 0)}
    ELSE {Move(<<1, 0, -1>>, 2, 0, 1), Move(<<-1, 1, 0>>, 4, 1, 0)}

InitPorts == \E n \in Nodes : PowerOn(n, Host(PortsMenu(n), MaxPortRequests))

SpecPorts == InitPorts /\ [][NextPorts]_vars

(***************************************************************************)
(* The 1-axis node sent one long move: activeSegment_timeRemaining and the *)
(* position both pass a multiple of 256 while the segment runs.            *)
(***************************************************************************)
LongMenu == {Move(<<LongSteps>>, LongTime, 1, 1)}

\* The ports the host of the long move sends to.
LongPorts == 11 .. 15

InitLong == PowerOn(SingleStepper, [Host(LongMenu, MaxLong) EXCEPT !.ports = LongPorts])

SpecLong == InitLong /\ [][NextPorts]_vars

(***************************************************************************)
(* The step generator on its own: two requests are in the buffer and the   *)
(* host sends no more, so the timer interrupt alone runs.  The first       *)
(* request is a short run that leaves the steppers off the origin, the     *)
(* second is the move under study, over a grid of targets and times.       *)
(***************************************************************************)
\* Lines 356-363: the slot the enqueue leaves from payload rx.
SegmentFromPayload(n, rx) ==
    [stepper_target |-> [i \in 0 .. (SteppersOn(n) - 1) |->
                            StoredTarget(readRxBuffer_int24(rx, 3 * i))],
     segmentTime |-> readRxBuffer_uint24(rx, 3 * SteppersOn(n)),
     segmentKey |-> rx[3 * SteppersOn(n) + 3 + 1],
     absoluteMove |-> rx[3 * SteppersOn(n) + 4 + 1],
     waitForSync |-> rx[3 * SteppersOn(n) + 5 + 1]]

Prelude(n, ticks) ==
    IF n = SingleStepper THEN Move(<<1>>, ticks, 0, 0) ELSE Move(<<1, -1, 0>>, ticks, 0, 0)

GridMoves(n) ==
    {Move(IF n = SingleStepper THEN <<a>> ELSE <<a, -a, a>>, t, absolute, 0) :
        a \in (-MaxHostSteps) .. MaxHostSteps, t \in 0 .. MaxTicks, absolute \in {0, 1}}

\* Power-on, then `first` and `second` enqueued before the first tick.
TwoQueued(n, first, second) ==
    /\ node = n
    /\ host = Host({}, 2)
    /\ TCNT1 = 0
    /\ motionBuffer = [s \in Slots |->
                         IF s = 1 THEN SegmentFromPayload(n, StepRequestPayload(first))
                         ELSE IF s = 2 THEN SegmentFromPayload(n, StepRequestPayload(second))
                         ELSE EmptySegment(SteppersOn(n))]
    /\ motionBuffer_readPosition = 0
    /\ motionBuffer_writePosition = 2
    /\ motionBuffer_syncSearchPosition = 0
    /\ activeSegment_stepperStates = [i \in 0 .. (SteppersOn(n) - 1) |-> EmptyStepperState]
    /\ activeSegment_bresenhamTriggerThreshold = 0
    /\ activeSegment_timeRemaining = 0
    /\ activeSegment_totalTime = 0
    /\ activeSegment_segmentKey = 0
    /\ waitingForSync = 0
    /\ stepperPositions = [i \in 0 .. (SteppersOn(n) - 1) |-> 0]
    /\ driversEnabled = [i \in 0 .. (SteppersOn(n) - 1) |-> FALSE]
    /\ directionPins = [i \in 0 .. (SteppersOn(n) - 1) |-> 0]
    /\ pc = "idle"
    /\ rxBuffer = <<>>
    /\ local = NoLocals
    /\ pending = <<[request |-> first, moved |-> FALSE],
                   [request |-> second, moved |-> FALSE]>>
    /\ cur = NoLoad
    /\ preempted = FALSE
    /\ pulses = [i \in 0 .. (SteppersOn(n) - 1) |-> 0]
    /\ motorPosition = [i \in 0 .. (SteppersOn(n) - 1) |-> 0]
    /\ nRequests = 2
    /\ rejected = {}
    /\ allAbsolute = FALSE
    /\ idleRun = NoRun
    /\ sinceSync = -1
    /\ steppedInRead = FALSE
    /\ ignoredPort = 0
    /\ underflowed = FALSE

InitGrid ==
    \E n \in Nodes, ticks \in 0 .. MaxPrelude :
      \E move \in GridMoves(n) :
        TwoQueued(n, [Prelude(n, ticks) EXCEPT !.key = 1], [move EXCEPT !.key = 2])

NextGrid == ISR_TIMER1_COMPA

SpecGrid == InitGrid /\ [][NextGrid]_vars

(***************************************************************************)
(* Properties.                                                             *)
(***************************************************************************)
Abs(x) == IF x < 0 THEN -x ELSE x

Min(a, b) == IF a < b THEN a ELSE b

Max(a, b) == IF a > b THEN a ELSE b

\* A request's targets in internal microsteps.
RequestTargets(request) ==
    [i \in Steppers |-> request.target[i + 1] * Pow2(smoothingMicrosteppingBits)]

\* The segment holds the targets, time, key and absolute flag of the request.
HoldsRequest(segment, request) ==
    /\ request # NoRequest
    /\ segment.stepper_target = RequestTargets(request)
    /\ segment.segmentTime = request.time
    /\ segment.segmentKey = request.key
    /\ segment.absoluteMove = request.absolute

\* The step generator has loaded a segment.
Loaded == cur # NoLoad

\* The foreground is between the first and the last statement of an enqueue.
WritingSlot ==
    pc \in {loadSegmentIntoMotionBuffer_order[k] :
               k \in 2 .. Len(loadSegmentIntoMotionBuffer_order)}

\* The slot of the k-th accepted request that is not loaded yet.
QueuedSlot(k) == (motionBuffer_readPosition + k) % motionBuffer_length

\* A step of the foreground (the interrupt changes neither pc nor the locals).
HandlerStep == <<pc, local>>' # <<pc, local>>

\* The handler of a stepRequest is past the full test.
PastFullTest == local.request # NoRequest /\ pc # "loadSegmentIntoMotionBuffer"

\* C1: whatever the interleaving of the enqueue's statements with the
\* interrupt, every load reads one whole request: the slot the loader read
\* holds the targets (in internal microsteps), segmentTime, segmentKey and
\* absoluteMove of the oldest accepted request that was not loaded yet, and the
\* active segment's key and total time are that request's.
C1_LoadReadsOneRequest ==
    Loaded => /\ HoldsRequest(cur.segment, cur.request)
              /\ activeSegment_segmentKey = cur.request.key
              /\ activeSegment_totalTime = cur.request.time

\* A load ran while the foreground was in the middle of writing a slot.
C1_LoadDuringEnqueue ==
    /\ Loaded
    /\ preempted
    /\ WritingSlot
    /\ local.request.key > cur.request.key
    /\ motionBuffer[local.newWritePosition].segmentKey # local.request.key

\* C2: the buffer is a lossless FIFO.  The accepted requests that are not
\* loaded yet sit, whole and in the order of their acceptance, in the slots
\* after the read head, one slot each up to the write head, and the segment in
\* the step generator is the request accepted before them: none is dropped,
\* duplicated, reordered or overwritten.
C2_LosslessFifo ==
    /\ Len(pending) = (motionBuffer_writePosition - motionBuffer_readPosition)
                          % motionBuffer_length
    /\ \A k \in 1 .. Len(pending) :
          /\ HoldsRequest(motionBuffer[QueuedSlot(k)], pending[k].request)
          /\ k > 1 => pending[k - 1].request.key < pending[k].request.key
          /\ Loaded => cur.request.key < pending[k].request.key
    /\ Loaded => activeSegment_segmentKey = cur.request.key

\* The ring has wrapped: a second or later segment is loaded and another is
\* queued behind it, in a slot below the read head.
C2_WrappedAndQueued ==
    /\ Loaded
    /\ cur.request.key >= 2
    /\ pending # <<>>
    /\ motionBuffer_writePosition < motionBuffer_readPosition

\* C3: the number of queued segments, (writePosition - readPosition) mod C, is
\* the number of accepted requests not loaded yet and is at most C - 1; C - 1
\* are queued iff (writePosition + 1) mod C = readPosition, none iff
\* writePosition = readPosition; and a stepRequest is rejected (success 0) iff
\* C - 1 were queued when its full test read readPosition.
C3_FullAndEmpty ==
    LET queued == (motionBuffer_writePosition - motionBuffer_readPosition)
                      % motionBuffer_length
    IN  /\ queued = Len(pending)
        /\ queued <= motionBuffer_length - 1
        /\ (queued = motionBuffer_length - 1) <=>
               ((motionBuffer_writePosition + 1) % motionBuffer_length
                    = motionBuffer_readPosition)
        /\ (queued = 0) <=> (motionBuffer_writePosition = motionBuffer_readPosition)
        /\ PastFullTest =>
               /\ (local.request.key \in rejected) <=> local.fullAtTest
               /\ (pc = "transmitStatus_437" /\ local.responsePort = gestaltPort_stepRequest)
                      => (StatusReply[1] = 0 <=> local.fullAtTest)

\* A request found the buffer full and is rejected, though a load has freed a
\* slot before the reply is sent.
C3_RejectedThoughFreed ==
    /\ pc = "transmitStatus_437"
    /\ local.responsePort = gestaltPort_stepRequest
    /\ local.fullAtTest
    /\ StatusReply[1] = 0
    /\ Len(pending) < motionBuffer_length - 1

\* The handler is serving a stepRequest that arrived with the buffer full.
ArrivedFull ==
    \/ pc = "loadSegmentIntoMotionBuffer" /\ Len(pending) = motionBuffer_length - 1
    \/ PastFullTest /\ local.fullAtTest

\* C4: a stepRequest that arrives while the buffer is full is answered with
\* statusCode 0, no step of its handler changes writePosition, a slot,
\* syncSearchPosition, readPosition, the active segment or any other state of
\* the node, and its payload is never stored, loaded or executed.
C4_RejectedHasNoEffect ==
    /\ [][(HandlerStep /\ ArrivedFull) =>
              /\ UNCHANGED progVars
              /\ pc' \in {"transmitStatus_435", "transmitStatus_436",
                          "transmitStatus_437", "idle"}
              /\ pc' # "idle" => /\ local'.statusCode = 0
                                 /\ local'.txBuffer[1] = 0
                                 /\ local'.responsePort = gestaltPort_stepRequest]_vars
    /\ [](\A key \in rejected :
              /\ activeSegment_segmentKey # key
              /\ Loaded => cur.request.key # key
              /\ \A slot \in Slots : motionBuffer[slot].segmentKey # key)

\* A request was rejected, and everything accepted has since been executed.
C4_RejectedThenDrained ==
    /\ rejected # {}
    /\ pc = "idle"
    /\ Loaded
    /\ pending = <<>>
    /\ activeSegment_timeRemaining = 0

\* The move of axis i that the loaded request asks for, from where the steppers
\* stood when it was loaded, in internal microsteps.
MoveAtLoad(i) ==
    RequestTargets(cur.request)[i] - (IF cur.request.absolute = 1 THEN cur.position[i] ELSE 0)

\* The loaded segment has run to its end.
Completed == Loaded /\ activeSegment_timeRemaining = 0

\* C5: a loaded segment of K microsteps on an axis and T ticks, 0 <= K <= T and
\* T >= 1, emits exactly K pulses on that axis in its T ticks: never more than K
\* nor more than one per elapsed tick on the way, K once timeRemaining is 0,
\* and stepsRemaining counts them down.
C5_ExactlyKPulses ==
    \A i \in Steppers :
        LET K == activeSegment_stepperStates[i].targetSteps
            T == activeSegment_totalTime
        IN  (Loaded /\ K <= T /\ T >= 1) =>
                /\ pulses[i] <= K
                /\ pulses[i] <= T - activeSegment_timeRemaining
                /\ activeSegment_stepperStates[i].stepsRemaining = K - pulses[i]
                /\ activeSegment_timeRemaining = 0 => pulses[i] = K

\* An incremental segment of fewer microsteps than ticks has run to its end.
C5_SlowSegmentDone ==
    /\ Completed
    /\ cur.request.absolute = 0
    /\ \E i \in Steppers :
          /\ activeSegment_stepperStates[i].targetSteps > 0
          /\ activeSegment_stepperStates[i].targetSteps < activeSegment_totalTime
          /\ pulses[i] = activeSegment_stepperStates[i].targetSteps

\* The tick that ends the loaded segment.
LastTick == activeSegment_timeRemaining = 1 /\ UNCHANGED <<pc, local>>

\* The pulses of axis i once the step under way is taken.
PulsesAfter(i) == pulses[i] + (IF motorPosition'[i] # motorPosition[i] THEN 1 ELSE 0)

\* C6 (as amended): the pulses emitted on an axis while an accepted request
\* executes number the magnitude of its move in internal microsteps, that is
\* |target << smoothingMicrosteppingBits| for an incremental request and
\* |(target << smoothingMicrosteppingBits) - position at load| for an absolute
\* one, or segmentTime if that is smaller.
C6_PulsesInMicrosteps ==
    /\ [][LastTick => \A i \in Steppers :
                         PulsesAfter(i) = Min(Abs(MoveAtLoad(i)), cur.request.time)]_vars
    /\ [](Completed => \A i \in Steppers :
                           pulses[i] = Min(Abs(MoveAtLoad(i)), cur.request.time))

\* C6 as stated: the pulses number the magnitude of the move in host steps
\* (here for the moves of no more microsteps than the segment has ticks).
C6_PulsesInHostSteps ==
    Completed => \A i \in Steppers :
                     Abs(MoveAtLoad(i)) <= cur.request.time =>
                         pulses[i] * Pow2(smoothingMicrosteppingBits) = Abs(MoveAtLoad(i))

\* A request of one host step has run to its end in four pulses.
C6_FourPulsesPerHostStep ==
    /\ Completed
    /\ \E i \in Steppers :
          /\ Abs(cur.request.target[i + 1]) = 1
          /\ cur.request.absolute = 0
          /\ pulses[i] = Pow2(smoothingMicrosteppingBits)

\* C7: stepperPositions[i] changes only in the interrupt's step branch, by
\* direction[i] (+1 or -1), once on every tick that pulses axis i and on no
\* other step; so it is at all times where the pulses, each in the direction
\* the pins had when it was emitted, have driven the motor from the origin.
C7_PositionCountsPulses ==
    /\ [][\A i \in Steppers :
             LET pulsed == motorPosition'[i] # motorPosition[i]
                 direction == activeSegment_stepperStates[i].direction
             IN  /\ stepperPositions'[i] =
                        stepperPositions[i] + (IF pulsed THEN direction ELSE 0)
                 /\ pulsed => /\ direction \in {1, -1}
                              /\ direction = PinDirection(directionPins[i])
                              /\ ~HandlerStep]_vars
    /\ [](\A i \in Steppers : stepperPositions[i] = motorPosition[i])

\* An axis has stepped back below the origin.
C7_SteppedBackwards ==
    \E i \in Steppers :
        /\ activeSegment_stepperStates[i].direction = -1
        /\ pulses[i] > 0
        /\ stepperPositions[i] < 0

\* Every accepted request was absolute, none was rejected, and all have run.
AllAbsoluteDone ==
    /\ allAbsolute
    /\ rejected = {}
    /\ Completed
    /\ pending = <<>>
    /\ motionBuffer_readPosition = motionBuffer_writePosition

\* C8 (as amended): after a sequence of absolute segments, all accepted and all
\* executed, stepperPositions[i] is the last segment's target in internal
\* microsteps on every axis whose move in that segment, |target - position at
\* load|, is at most its segmentTime.
C8_EndsAtLastTarget ==
    AllAbsoluteDone =>
        \A i \in Steppers :
            Abs(MoveAtLoad(i)) <= cur.request.time =>
                stepperPositions[i] = RequestTargets(cur.request)[i]

\* C8 as stated: for every choice of targets and segment times.
C8_EndsAtLastTargetAlways ==
    AllAbsoluteDone =>
        \A i \in Steppers : stepperPositions[i] = RequestTargets(cur.request)[i]

\* Two absolute segments have run, the second from off the origin to its target.
C8_SecondTargetReached ==
    /\ AllAbsoluteDone
    /\ cur.request.key >= 2
    /\ \E i \in Steppers :
          /\ cur.position[i] # 0
          /\ stepperPositions[i] # cur.position[i]
          /\ stepperPositions[i] = RequestTargets(cur.request)[i]

\* C9: the move of an absolute segment is taken from stepperPositions as it
\* stands when the interrupt loads the segment, after everything before it has
\* run: targetSteps is |A - p| and the direction the sign of A - p, for the
\* target A in internal microsteps and the position p at the load, from which
\* the segment's pulses then count.
C9_DeltaFromPositionAtLoad ==
    (Loaded /\ cur.request.absolute = 1) =>
        \A i \in Steppers :
            LET state == activeSegment_stepperStates[i]
            IN  /\ state.targetSteps = Abs(MoveAtLoad(i))
                /\ state.direction = (IF MoveAtLoad(i) > 0 THEN 1 ELSE -1)
                /\ stepperPositions[i] = cur.position[i] + state.direction * pulses[i]

\* An absolute segment was loaded after the steppers moved while it was queued.
C9_MovedWhileQueued ==
    /\ Loaded
    /\ cur.request.absolute = 1
    /\ cur.moved
    /\ \E i \in Steppers : /\ cur.position[i] # 0
                           /\ activeSegment_stepperStates[i].targetSteps > 0

\* A getStatus reply is about to be sent, for a segment that an idle node accepted.
StatusOfIdleRun ==
    /\ pc = "transmitStatus_437"
    /\ local.responsePort = gestaltPort_getStatus
    /\ idleRun # NoRun

\* C10 (as amended): after an idle node accepts an incremental, non-waiting
\* segment of T ticks, a getStatus that arrives once T + 1 ticks have fired is
\* answered with that segment's key and timeRemaining 0.
C10_DoneAfterOneMoreTick ==
    (StatusOfIdleRun /\ local.ticksAtStart = idleRun.request.time + 1) =>
        /\ StatusReply[1] = 1
        /\ StatusReply[2] = idleRun.request.key
        /\ readRxBuffer_uint24(StatusReply, 2) = 0

\* C10 as stated: on the 1-axis node at position 0, after exactly T ticks
\* (here for T >= 1).
C10_DoneAfterExactlyT ==
    (/\ StatusOfIdleRun
     /\ node = SingleStepper
     /\ idleRun.request.time >= 1
     /\ idleRun.position = [i \in Steppers |-> 0]
     /\ local.ticksAtStart = idleRun.request.time
     /\ idleRun.ticks = idleRun.request.time) =>
        /\ StatusReply[2] = idleRun.request.key
        /\ readRxBuffer_uint24(StatusReply, 2) = 0

\* The reply to a getStatus that arrived T + 1 ticks after the acceptance of a
\* segment of T >= 1 ticks, whose pulses are out.
C10_RepliedAfterOneMoreTick ==
    /\ StatusOfIdleRun
    /\ idleRun.request.time >= 1
    /\ local.ticksAtStart = idleRun.request.time + 1
    /\ StatusReply[2] = idleRun.request.key
    /\ \E i \in Steppers : pulses[i] > 0

\* The queued slots that wait for a sync, oldest first by k.
WaitingQueued == {k \in 1 .. Len(pending) : motionBuffer[QueuedSlot(k)].waitForSync = 1}

\* Slot s is the oldest queued segment that still waits.
OldestWaiting(s) ==
    \E k \in WaitingQueued : /\ QueuedSlot(k) = s
                             /\ \A j \in WaitingQueued : k <= j

InSync == pc \in {"svc_sync_492", "svc_sync_503", "svc_sync_504"}

\* C11: the handling of a sync changes the motion buffer in one step at most,
\* its last, and there in one slot only, whose waitForSync goes from 1 to 0
\* and which is the oldest queued segment that still waits; and it does clear
\* one whenever a queued segment waits.  So j syncs release the j oldest of the
\* waiting segments.
C11_SyncReleasesOldest ==
    /\ [][(InSync /\ HandlerStep) =>
              LET changed == {s \in Slots : motionBuffer'[s] # motionBuffer[s]}
              IN  /\ Cardinality(changed) <= 1
                  /\ \A s \in changed :
                        /\ motionBuffer[s].waitForSync = 1
                        /\ motionBuffer'[s] = [motionBuffer[s] EXCEPT !.waitForSync = 0]
                        /\ OldestWaiting(s)
                        /\ pc' = "idle"
                  /\ (pc = "svc_sync_503" /\ WaitingQueued # {}) => pc' = "svc_sync_504"
                  /\ (pc = "svc_sync_504") => changed # {}]_vars
    /\ [](pc = "svc_sync_504" => OldestWaiting(local.newSyncSearchPosition))
    /\ [](\A k \in WaitingQueued : pending[k].request.waitForSync = 1)

\* Two waiting segments were queued and one sync has come: the older is
\* released, the newer still waits.
C11_OlderReleased ==
    /\ pc = "idle"
    /\ Len(pending) = 2
    /\ pending[1].request.waitForSync = 1
    /\ pending[2].request.waitForSync = 1
    /\ motionBuffer[QueuedSlot(1)].waitForSync = 0
    /\ motionBuffer[QueuedSlot(2)].waitForSync = 1

\* A step of the timer interrupt.
IsrStep ==
    /\ UNCHANGED <<pc, local>>
    /\ host.timed => TCNT1 = stepGenerator_timeBase
    /\ TCNT1' = 0

\* The slot after the read head.
SlotAfterRead == WrapIndex(motionBuffer_readPosition + 1)

\* C12: a segment enqueued with waitForSync = 1 is not loaded before a sync
\* has cleared its flag.  While the queued slot after readPosition has
\* waitForSync = 1 and the active segment is finished, a tick emits no pulse,
\* leaves readPosition where it is and leaves waitingForSync = 1; once the
\* flag is cleared, the next tick loads the segment.
C12_BlockedUntilSync ==
    /\ [][(/\ IsrStep
           /\ activeSegment_timeRemaining = 0
           /\ motionBuffer_readPosition # motionBuffer_writePosition) =>
              IF motionBuffer[SlotAfterRead].waitForSync = 1
              THEN /\ motionBuffer_readPosition' = motionBuffer_readPosition
                   /\ waitingForSync' = 1
                   /\ motorPosition' = motorPosition
                   /\ stepperPositions' = stepperPositions
                   /\ activeSegment_timeRemaining' = 0
                   /\ activeSegment_segmentKey' = activeSegment_segmentKey
              ELSE /\ motionBuffer_readPosition' = SlotAfterRead
                   /\ waitingForSync' = 0
                   /\ activeSegment_segmentKey' = motionBuffer[SlotAfterRead].segmentKey
                   /\ activeSegment_timeRemaining' = motionBuffer[SlotAfterRead].segmentTime]_vars
    /\ []((Loaded /\ cur.request.waitForSync = 1) => cur.segment.waitForSync = 0)

\* The step generator has waited for a sync, the sync has cleared the flag of
\* the waiting segment, and the next tick will load it.
C12_ReleasedNotYetLoaded ==
    /\ pc = "idle"
    /\ Loaded
    /\ activeSegment_timeRemaining = 0
    /\ waitingForSync = 1
    /\ pending # <<>>
    /\ pending[1].request.waitForSync = 1
    /\ motionBuffer[QueuedSlot(1)].waitForSync = 0

\* A sync packet is taken from the network.
SyncDispatch == pc = "idle" /\ pc' = "svc_sync_492"

\* C13: a sync handled while waitingForSync = 1 sets the timer's counter to 0
\* whatever it held, and a sync handled while waitingForSync = 0 does not
\* write it; no other statement of any handler writes the counter.  From the
\* reset on the counter holds the counts elapsed since the sync, the next
\* tick comes when it has reached the compare value, one full period after
\* the sync, and that tick loads the segment the sync has released.
C13_SyncResetsCounter ==
    /\ [][SyncDispatch =>
            TCNT1' = IF waitingForSync = 1 THEN 0 ELSE TCNT1]_vars
    /\ [][(HandlerStep /\ ~SyncDispatch) => TCNT1' = TCNT1]_vars
    /\ [](sinceSync >= 0 => TCNT1 = sinceSync)
    /\ [][(IsrStep /\ sinceSync >= 0) =>
            /\ sinceSync = stepGenerator_timeBase
            /\ pending # <<>>
            /\ pending[1].request.waitForSync = 1
            /\ cur'.request = pending[1].request
            /\ motionBuffer_readPosition' = SlotAfterRead
            /\ waitingForSync' = 0]_vars

\* One full period has gone by since a sync reset the counter, the handler
\* has returned with the waiting segment released, and the tick is due.
C13_PeriodAfterSync ==
    /\ host.timed
    /\ pc = "idle"
    /\ sinceSync = stepGenerator_timeBase
    /\ TCNT1 = stepGenerator_timeBase
    /\ pending # <<>>
    /\ pending[1].request.waitForSync = 1
    /\ motionBuffer[QueuedSlot(1)].waitForSync = 0

\* The distance of a slot ahead of the read head, around the ring.
AheadOfRead(s) == (s - motionBuffer_readPosition) % motionBuffer_length

\* C14: a sync whose scan finds no queued segment with waitForSync = 1 writes
\* no slot, sets motionBuffer_syncSearchPosition to motionBuffer_writePosition
\* and returns; the search position is never beyond the write head.  Nothing
\* else is kept of the sync: a queued flag of 1 is cleared only by the last
\* statement of a later svc_sync, so a segment with waitForSync = 1 enqueued
\* afterwards waits for a further sync.
C14_UnmatchedSyncNotRemembered ==
    /\ [][(pc = "svc_sync_503" /\ HandlerStep /\ WaitingQueued = {}) =>
            /\ pc' = "idle"
            /\ motionBuffer' = motionBuffer
            /\ motionBuffer_syncSearchPosition' = motionBuffer_writePosition]_vars
    /\ [](AheadOfRead(motionBuffer_syncSearchPosition)
             <= AheadOfRead(motionBuffer_writePosition))
    /\ [][\A k \in WaitingQueued :
            motionBuffer'[QueuedSlot(k)].waitForSync # 1 => pc = "svc_sync_504"]_vars
    /\ [][(pc # "svc_sync_504" /\ pending # <<>>
              /\ motionBuffer[QueuedSlot(1)].waitForSync = 1) =>
            motionBuffer_readPosition' = motionBuffer_readPosition]_vars

\* A sync came while a segment that does not wait was queued behind a running
\* one, and left the search position at the write head; the segment enqueued
\* after it waits, and its flag is still set.
C14_EnqueuedAfterSyncWaits ==
    /\ pc = "idle"
    /\ Loaded
    /\ activeSegment_timeRemaining > 0
    /\ Len(pending) = 2
    /\ pending[1].request.waitForSync = 0
    /\ pending[2].request.waitForSync = 1
    /\ motionBuffer_syncSearchPosition = QueuedSlot(1)
    /\ motionBuffer[QueuedSlot(2)].waitForSync = 1

\* The segment next to load is queued with its waitForSync flag set.
Stalled == pending # <<>> /\ motionBuffer[QueuedSlot(1)].waitForSync = 1

\* A step that can end a stall: none on the 3-axis node, the last statement
\* of svc_sync on the 1-axis node.
SyncReleases == node = SingleStepper /\ pc = "svc_sync_504"

\* C15: once the segment next to load has waitForSync = 1, every step of the
\* 3-axis node, and every step of the 1-axis node that is not the release by
\* svc_sync, leaves the flag set and readPosition where it is and takes no
\* segment out of the queue; when the active segment is finished no step
\* emits a pulse or moves a position; and a stepRequest that finds C - 1
\* segments queued is answered with statusCode 0.
C15_StallPersists ==
    /\ [][(Stalled /\ ~SyncReleases) =>
            /\ Stalled'
            /\ motionBuffer_readPosition' = motionBuffer_readPosition
            /\ Len(pending') >= Len(pending)
            /\ pending'[1].request = pending[1].request
            /\ activeSegment_timeRemaining = 0 =>
                  /\ pulses' = pulses
                  /\ motorPosition' = motorPosition
                  /\ stepperPositions' = stepperPositions
                  /\ activeSegment_timeRemaining' = 0]_vars
    /\ [][(Stalled /\ pc = "loadSegmentIntoMotionBuffer"
              /\ Len(pending) = motionBuffer_length - 1 /\ HandlerStep) =>
            /\ local.request.key \in rejected'
            /\ local'.statusCode = 0
            /\ motionBuffer_writePosition' = motionBuffer_writePosition]_vars
    /\ [](node = MagicMill => pc \notin {"svc_sync_492", "svc_sync_503", "svc_sync_504"})

\* On the 3-axis node the step generator has found the segment next to load
\* waiting for a sync, the queue has filled up behind it and a stepRequest
\* has been rejected.
C15_MillStalledAndFull ==
    /\ node = MagicMill
    /\ pc = "idle"
    /\ Stalled
    /\ activeSegment_timeRemaining = 0
    /\ waitingForSync = 1
    /\ Len(pending) = motionBuffer_length - 1
    /\ rejected # {}

\* C16: no step of a handler or of the interrupt sets the waitForSync flag of
\* a queued slot: a flag that is not 1 is not 1 after the step, and a flag
\* that is 1 changes only by the last statement of svc_sync, to 0.
C16_QueuedFlagNeverSet ==
    [][\A k \in 1 .. Len(pending) :
          LET before == motionBuffer[QueuedSlot(k)].waitForSync
              after  == motionBuffer'[QueuedSlot(k)].waitForSync
          IN  /\ before # 1 => after # 1
              /\ after # before => /\ before = 1
                                   /\ after = 0
                                   /\ pc = "svc_sync_504"]_vars

\* A sync has cleared the flag of the queued segment, and a handler has since
\* written a set flag into the slot behind it without publishing it yet.
C16_SetFlagWrittenBehind ==
    /\ pc = "loadSegmentIntoMotionBuffer_365"
    /\ local.request.waitForSync = 1
    /\ Len(pending) = 1
    /\ pending[1].request.waitForSync = 1
    /\ motionBuffer[QueuedSlot(1)].waitForSync = 0
    /\ motionBuffer[local.newWritePosition].waitForSync = 1

\* C17: every step of a handler (stepRequest, getPosition, getStatus, getVRef,
\* enableDrivers, sync) leaves activeSegment_stepperStates,
\* activeSegment_timeRemaining, stepperPositions and motionBuffer_readPosition
\* unchanged, a packet for a port without a case changes nothing at all, and
\* every tick of the interrupt leaves motionBuffer_writePosition and every
\* field of every slot unchanged.
C17_WriterOwnership ==
    /\ [][HandlerStep =>
            UNCHANGED <<activeSegment_stepperStates, activeSegment_timeRemaining,
                        stepperPositions, motionBuffer_readPosition>>]_vars
    /\ [][IsrStep =>
            UNCHANGED <<motionBuffer_writePosition, motionBuffer>>]_vars
    /\ [][(\E destinationPort \in PortsSent \ RoutedPorts :
              userPacketRouter_others(destinationPort)) =>
                 UNCHANGED <<node, host, TCNT1, progVars, fgVars, histKept, preempted>>]_vars

\* The interrupt has loaded a segment and stepped, a sync has released the
\* segment queued behind it, an enableDrivers packet has switched the drivers
\* off since the load, and a getPosition handler is about to reply.
C17_BothWritersActed ==
    /\ pc = "svc_getPosition_478"
    /\ Loaded
    /\ stepperPositions # [i \in Steppers |-> 0]
    /\ pending # <<>>
    /\ pending[1].request.waitForSync = 1
    /\ motionBuffer[QueuedSlot(1)].waitForSync = 0
    /\ \A i \in Steppers : ~driversEnabled[i]

\* The handler in progress began after the active segment was loaded.
BeganAfterLoad == Loaded /\ ~preempted

\* The timeRemaining of the status reply about to be sent lies between the
\* value now and the time of the segment.
StatusTimeHeld ==
    /\ local.value >= activeSegment_timeRemaining
    /\ local.value <= activeSegment_totalTime

\* Each position of the getPosition reply about to be sent lies between the
\* position at the load and the position now.
PositionsHeld ==
    \A i \in Steppers :
       LET atLoad == ShiftRight32(cur.position[i], smoothingMicrosteppingBits)
           atReply == ShiftRight32(stepperPositions[i], smoothingMicrosteppingBits)
       IN  /\ PositionReply[i] >= Min(atLoad, atReply)
           /\ PositionReply[i] <= Max(atLoad, atReply)

\* C18 (as stated): the timeRemaining of a status reply and each position of a
\* getPosition reply is a value the variable held during the handling of the
\* request.  While a segment runs, timeRemaining only counts down from the
\* segment's time and a position only moves away from where it was at the
\* load, so a reply of a handler that began after the load lies between the
\* value at the load and the value at the reply.
C18_RepliesNeverTorn ==
    /\ (pc = "transmitStatus_437" /\ BeganAfterLoad) => StatusTimeHeld
    /\ (pc = "svc_getPosition_478" /\ BeganAfterLoad) => PositionsHeld

\* The key the status reply about to be sent reports is the key now, unless a
\* load has changed it since the handler read it.
ReplyKeyCurrent == ~preempted => StatusReply[2] = activeSegment_segmentKey

\* C19: the payload of every status reply is the 7 bytes [statusCode,
\* activeSegment_segmentKey, the three low bytes of the timeRemaining read,
\* low byte first, motionBuffer_readPosition, motionBuffer_writePosition];
\* for a stepRequest the statusCode is 1 if the request was enqueued and 0 if
\* the buffer was full, and the write position is the one after the attempt
\* (the slot of the request if it was enqueued); for getStatus it is 1.
C19_StatusReplyLayout ==
    pc = "transmitStatus_437" =>
       /\ Len(StatusReply) = 7
       /\ StatusReply[1] = local.statusCode
       /\ ReplyKeyCurrent
       /\ StatusReply[3] = local.value % 256
       /\ StatusReply[4] = (local.value \div 256) % 256
       /\ StatusReply[5] = (local.value \div 65536) % 256
       /\ ~preempted => activeSegment_timeRemaining <= local.value
       /\ StatusReply[6] = motionBuffer_readPosition
       /\ StatusReply[7] = motionBuffer_writePosition
       /\ local.responsePort \in {gestaltPort_stepRequest, gestaltPort_getStatus}
       /\ local.responsePort = gestaltPort_getStatus => StatusReply[1] = 1
       /\ local.responsePort = gestaltPort_stepRequest =>
             /\ StatusReply[1] = (IF local.request.key \in rejected THEN 0 ELSE 1)
             /\ StatusReply[1] = 1 <=>
                   motionBuffer[StatusReply[7]].segmentKey = local.request.key
             /\ StatusReply[1] = 1 =>
                   \/ pending # <<>> /\ pending[Len(pending)].request = local.request
                   \/ pending = <<>> /\ cur.request = local.request

\* The reply to a rejected stepRequest is about to be sent: the buffer is full
\* behind a segment that waits for a sync.
C19_RejectedReplyAboutToGo ==
    /\ pc = "transmitStatus_437"
    /\ local.responsePort = gestaltPort_stepRequest
    /\ StatusReply[1] = 0
    /\ FreeSlots(StatusReply) = 0
    /\ waitingForSync = 1

\* The slots free for further segments.
FreeNow ==
    (motionBuffer_readPosition - motionBuffer_writePosition - 1) % motionBuffer_length

\* A stepRequest is being handled and its segment is not published yet.
EnqueueUnpublished ==
    /\ local.request # NoRequest
    /\ pc \in {"loadSegmentIntoMotionBuffer", "loadSegmentIntoMotionBuffer_357",
               "loadSegmentIntoMotionBuffer_360", "loadSegmentIntoMotionBuffer_361",
               "loadSegmentIntoMotionBuffer_362", "loadSegmentIntoMotionBuffer_363",
               "loadSegmentIntoMotionBuffer_365"}

\* C20: a host that sends, after a status reply showing f free slots, no more
\* than f stepRequests has none of them rejected, whatever ticks and syncs
\* come between: the free slots the host still counts on never exceed the
\* slots that are free, every request finds the buffer not full, and a later
\* reply never shows less than what the host still counted on.
C20_FreeSpaceNeverOverestimated ==
    /\ host.credit + (IF EnqueueUnpublished THEN 1 ELSE 0) <= FreeNow
    /\ rejected = {}
    /\ PastFullTest => ~local.fullAtTest
    /\ pc = "transmitStatus_437" => FreeSlots(StatusReply) >= host.credit

\* The host has filled the buffer and refilled it by the free space of the
\* replies: as many requests as the ring has slots were sent, the buffer is
\* full again and the host counts on no free slot.
C20_RefilledByCredit ==
    /\ pc = "idle"
    /\ host.flow
    /\ nRequests >= motionBuffer_length
    /\ FreeNow = 0
    /\ host.credit = 0
    /\ Loaded

\* The bytes of axis i in the getPosition reply about to be sent, as one number.
ReplyBytes(i) ==
    local.txBuffer[3 * i + 1] + 256 * local.txBuffer[3 * i + 2]
        + 65536 * local.txBuffer[3 * i + 3]

\* C21: the getPosition reply is 3 bytes for each stepper, in the order of the
\* steppers; unless a position changed while the handler read it, the bytes of
\* stepper i are the 24-bit two's-complement value, low byte first, of
\* stepperPositions[i] divided by 4 and rounded down, also when the position
\* is negative.  So once an absolute segment has run to its end and its move
\* was within its segment time, the reply holds the host target of every axis.
C21_PositionReplyInHostSteps ==
    pc = "svc_getPosition_478" =>
       /\ Len(local.txBuffer) = 3 * numberOfSteppersOnNode
       /\ local.packetIndex = 3 * numberOfSteppersOnNode
       /\ \A k \in 1 .. Len(local.txBuffer) : local.txBuffer[k] \in 0 .. 255
       /\ ~steppedInRead =>
             \A i \in Steppers :
                /\ 4 * PositionReply[i] <= stepperPositions[i]
                /\ stepperPositions[i] < 4 * PositionReply[i] + 4
                /\ ReplyBytes(i) = IF PositionReply[i] >= 0 THEN PositionReply[i]
                                   ELSE PositionReply[i] + 16777216
                /\ (/\ Completed
                    /\ cur.request.absolute = 1
                    /\ Abs(MoveAtLoad(i)) <= cur.request.time) =>
                       PositionReply[i] = cur.request.target[i + 1]

\* An absolute segment to a negative host target has run to its end, and the
\* getPosition reply about to be sent reports that target.
C21_NegativeTargetReported ==
    /\ pc = "svc_getPosition_478"
    /\ ~steppedInRead
    /\ Completed
    /\ cur.request.absolute = 1
    /\ \E i \in Steppers : /\ cur.request.target[i + 1] < 0
                           /\ PositionReply[i] = cur.request.target[i + 1]
                           /\ local.txBuffer[3 * i + 3] = 255

\* C22: for every int24 value v the three bytes writeTxBuffer_int24 puts at a
\* payload offset are v's two's-complement bytes, low byte first, and
\* readRxBuffer_int24 reads them back at that offset as v, negative exactly
\* when bit 23 is set; readRxBuffer_uint24 reads back what
\* writeTxBuffer_uint24 wrote for every value below 2^24; the bytes at the
\* other offsets are left alone.
C22_CodecRoundTrip ==
    LET signed == host.codec[1]
        v == host.codec[2]
        at == host.codec[3]
    IN  pc = "codecDone" =>
           /\ local.value = v
           /\ \A k \in 1 .. 3 : rxBuffer[at + k] \in 0 .. 255
           /\ rxBuffer[at + 1] + 256 * rxBuffer[at + 2] + 65536 * rxBuffer[at + 3]
                 = (IF v < 0 THEN v + 16777216 ELSE v)
           /\ signed => (local.value < 0 <=> rxBuffer[at + 3] >= 128)
           /\ \A k \in 1 .. Len(rxBuffer) : k \notin at + 1 .. at + 3 => rxBuffer[k] = 0

\* The least int24 has gone through the codec at an offset past the start.
C22_LeastInt24ReadBack ==
    /\ pc = "codecDone"
    /\ host.codec = <<TRUE, -8388608, 3>>
    /\ rxBuffer = <<0, 0, 0, 0, 0, 128, 0, 0, 0>>
    /\ local.value = -8388608

\* The ports each node's switch has a case for: 8 and 11 to 15 on the 1-axis
\* node, 11 to 15 on the 3-axis node.
HandledPorts == IF node = SingleStepper THEN {8} \cup (11 .. 15) ELSE 11 .. 15

\* The router has just been handed a packet it has no case for.
IgnoredStep == ignoredPort' # 0 /\ ignoredPort' # ignoredPort

\* C23: a packet for a port the node's switch has no case for changes no
\* motion, buffer, sync or driver state, starts no handler and prepares no
\* reply: the foreground is idle before and after, and everything but the
\* record of the port is as it was.  The ports ignored are exactly those
\* outside the node's handled ports, on the 3-axis node port 8 among them:
\* that node never runs a statement of svc_sync and never moves its sync
\* search position except by a load.
C23_UnknownPortIgnored ==
    /\ [][IgnoredStep =>
            /\ ignoredPort' \notin HandledPorts
            /\ pc = "idle" /\ pc' = "idle"
            /\ UNCHANGED <<node, host, TCNT1, progVars, fgVars, histKept, preempted>>]_vars
    /\ [][(ignoredPort' = 0 /\ pc = "idle" /\ pc' # "idle") =>
            \E destinationPort \in HandledPorts :
               \/ userPacketRouter(destinationPort)
               \/ userPacketRouter_others(destinationPort)]_vars
    /\ [](node = MagicMill => pc \notin {"svc_sync_492", "svc_sync_503", "svc_sync_504"})
    /\ [][(node = MagicMill /\ ~IsrStep) => UNCHANGED <<motionBuffer_syncSearchPosition,
                                                         waitingForSync>>]_vars

\* The 3-axis node, stalled on a segment that waits for sync, has just been
\* sent a sync packet.
C23_MillIgnoredSync ==
    /\ node = MagicMill
    /\ ignoredPort = gestaltPort_sync
    /\ pc = "idle"
    /\ waitingForSync = 1
    /\ activeSegment_timeRemaining = 0
    /\ pending # <<>>

\* C24: for a loaded segment of K microsteps on an axis in T ticks, K <= T,
\* after each of its first t ticks the s pulses emitted so far on that axis
\* are within half a step of the ideal line: |s * T - t * K| <= T / 2; the
\* accumulator holds t * K - s * T; and a tick adds at most one pulse to an
\* axis and takes none away.
C24_PulsesFollowIdealLine ==
    /\ [](\A i \in Steppers :
            LET K == activeSegment_stepperStates[i].targetSteps
                T == activeSegment_totalTime
                t == T - activeSegment_timeRemaining
                s == pulses[i]
            IN  (Loaded /\ K <= T) =>
                   /\ 0 <= t /\ t <= T
                   /\ s = K - activeSegment_stepperStates[i].stepsRemaining
                   /\ activeSegment_stepperStates[i].bresenhamAccumulator = t * K - s * T
                   /\ 2 * Abs(s * T - t * K) <= T)
    /\ [][(IsrStep /\ activeSegment_timeRemaining > 1) =>
             \A i \in Steppers : pulses'[i] - pulses[i] \in {0, 1}]_vars
    /\ [][(IsrStep /\ activeSegment_timeRemaining = 1) =>
             \A i \in Steppers : PulsesAfter(i) - pulses[i] \in {0, 1}]_vars

\* Part way through a segment an axis that has pulsed is exactly half a step
\* off the ideal line.
C24_HalfStepOff ==
    /\ Loaded
    /\ activeSegment_timeRemaining > 0
    /\ \E i \in Steppers :
          /\ activeSegment_stepperStates[i].targetSteps <= activeSegment_totalTime
          /\ pulses[i] >= 1
          /\ 2 * Abs(pulses[i] * activeSegment_totalTime
                     - (activeSegment_totalTime - activeSegment_timeRemaining)
                       * activeSegment_stepperStates[i].targetSteps)
                = activeSegment_totalTime

\* C25: in every state the interrupt can be entered in and the foreground can
\* read, the active segment is consistent: the threshold is half the total
\* time, rounded down; the time remaining is at most the total time; while
\* the time remaining is above 0 the key, the total time and each axis's
\* target steps, direction and direction pin are those of one request, the
\* one loaded last; and an interrupt that finds the time remaining at 0
\* steps nothing.
C25_ActiveSegmentConsistent ==
    /\ [](/\ 2 * activeSegment_bresenhamTriggerThreshold <= activeSegment_totalTime
          /\ activeSegment_totalTime <= 2 * activeSegment_bresenhamTriggerThreshold + 1
          /\ 0 <= activeSegment_timeRemaining
          /\ activeSegment_timeRemaining <= activeSegment_totalTime
          /\ activeSegment_timeRemaining > 0 =>
                /\ Loaded
                /\ activeSegment_segmentKey = cur.request.key
                /\ activeSegment_totalTime = cur.request.time
                /\ \A i \in Steppers :
                      /\ activeSegment_stepperStates[i].targetSteps = Abs(MoveAtLoad(i))
                      /\ activeSegment_stepperStates[i].direction
                            = (IF MoveAtLoad(i) > 0 THEN 1 ELSE -1)
                      /\ directionPins[i] = (IF MoveAtLoad(i) > 0 THEN 1 ELSE 0))
    /\ [][(IsrStep /\ activeSegment_timeRemaining = 0) =>
             /\ stepperPositions' = stepperPositions
             /\ motorPosition' = motorPosition]_vars

\* A second segment, of an odd number of ticks and stepping backwards, is
\* under way while the foreground is in a handler.
C25_SecondSegmentUnderWay ==
    /\ pc # "idle"
    /\ Loaded
    /\ cur.request.key = 2
    /\ activeSegment_totalTime = 2 * activeSegment_bresenhamTriggerThreshold + 1
    /\ activeSegment_timeRemaining > 0
    /\ activeSegment_timeRemaining < activeSegment_totalTime
    /\ \E i \in Steppers : activeSegment_stepperStates[i].direction = -1
                           /\ activeSegment_stepperStates[i].targetSteps > 0

(***************************************************************************)
(* Segments sent back to back to the 1-axis node, one of them of 0 ticks   *)
(* and one that waits for a sync.                                          *)
(***************************************************************************)
MaxHandOver == 3

HandOverMenu == {Move(<<1>>, 2, 0, 0), Move(<<-1>>, 0, 0, 0), Move(<<1>>, 1, 1, 1)}

InitHandOver == PowerOn(SingleStepper, Host(HandOverMenu, MaxHandOver))

SpecHandOver == InitHandOver /\ [][Next]_vars

\* The slot after the read head holds a published segment that does not wait
\* for a sync.
RunnableQueued ==
    /\ motionBuffer_readPosition # motionBuffer_writePosition
    /\ motionBuffer[WrapIndex(motionBuffer_readPosition + 1)].waitForSync = 0

\* The interrupt call loads the segment after the read head.
LoadsNext ==
    LET next == WrapIndex(motionBuffer_readPosition + 1)
    IN  /\ motionBuffer_readPosition' = next
        /\ activeSegment_segmentKey' = motionBuffer[next].segmentKey
        /\ activeSegment_totalTime' = motionBuffer[next].segmentTime
        /\ activeSegment_timeRemaining' = motionBuffer[next].segmentTime

\* The interrupt call emits no pulse.
NoPulse == motorPosition' = motorPosition /\ stepperPositions' = stepperPositions

MaxFair == 2

InitFair == PowerOn(SingleStepper, Host(HandOverMenu, MaxFair))

SpecFair == InitFair /\ [][Next]_vars /\ WF_vars(ISR_TIMER1_COMPA)

\* The request with key k is queued, and neither its slot nor a slot queued
\* ahead of it has waitForSync set.
Unblocked(k) ==
    \E j \in 1 .. Len(pending) :
       /\ pending[j].request.key = k
       /\ \A i \in 1 .. j : motionBuffer[QueuedSlot(i)].waitForSync = 0

\* The request with key k is the one loaded.
LoadedKey(k) == Loaded /\ cur.request.key = k

\* C27: with the interrupt firing as long as it has something to do, every
\* accepted request that is queued with no waitForSync flag set on it or
\* ahead of it is eventually loaded, and every loaded request eventually
\* comes to its end; from its load to its end its time remaining starts at
\* its segmentTime, goes down by exactly one per interrupt call, and no step
\* of a handler changes the time remaining, the total time, the key, the
\* stepper states or the read position.
C27_EveryUnblockedSegmentRuns ==
    /\ \A k \in 1 .. MaxFair : Unblocked(k) ~> LoadedKey(k)
    /\ \A k \in 1 .. MaxFair :
          LoadedKey(k) ~> (activeSegment_timeRemaining = 0 \/ ~LoadedKey(k))
    /\ [][HandlerStep =>
             UNCHANGED <<activeSegment_timeRemaining, activeSegment_totalTime,
                         activeSegment_segmentKey, activeSegment_stepperStates,
                         motionBuffer_readPosition>>]_vars
    /\ [][(IsrStep /\ activeSegment_timeRemaining > 0) =>
             \/ /\ activeSegment_timeRemaining' = activeSegment_timeRemaining - 1
                /\ UNCHANGED <<activeSegment_totalTime, activeSegment_segmentKey, cur>>
             \/ /\ activeSegment_timeRemaining = 1
                /\ RunnableQueued
                /\ LoadsNext]_vars
    /\ [][\A k \in 1 .. MaxFair :
             (~LoadedKey(k) /\ LoadedKey(k)') =>
                /\ cur'.request.waitForSync = 0 \/ node = SingleStepper
                /\ activeSegment_timeRemaining' = cur'.request.time
                /\ activeSegment_totalTime' = cur'.request.time]_vars

\* The last request, which waited for a sync behind another, has been
\* released, loaded and run to its end.
C27_ReleasedSegmentFinished ==
    /\ LoadedKey(MaxFair)
    /\ cur.moved
    /\ cur.request.waitForSync = 1
    /\ cur.request.time >= 1
    /\ activeSegment_timeRemaining = 0
    /\ \E i \in Steppers : pulses[i] >= 1

\* Slot s is one of those after the sync search position up to the write head.
AfterSyncSearch(s) ==
    LET ahead == (s - motionBuffer_syncSearchPosition) % motionBuffer_length
    IN  /\ 0 < ahead
        /\ ahead <= (motionBuffer_writePosition - motionBuffer_syncSearchPosition)
                       % motionBuffer_length

\* The slot an enqueue in progress has written its flag to and not published.
FlagUnpublished(s) ==
    /\ pc = "loadSegmentIntoMotionBuffer_365"
    /\ s = WrapIndex(motionBuffer_writePosition + 1)

\* The slot svc_sync has set the search position to and not cleared yet.
FlagAboutToClear(s) ==
    /\ pc = "svc_sync_504"
    /\ s = motionBuffer_syncSearchPosition

\* C28 (as amended): the sync search position is always between the read head
\* and the write head, around the ring and inclusive, also when the
\* interrupt loads segments between svc_sync's read of it and svc_sync's
\* store to it; a slot with waitForSync = 1 is one of those after the sync
\* search position up to the write head, or the slot that an enqueue in
\* progress has filled and not published yet, or the slot at the search
\* position between svc_sync's store of the position and its clearing of the
\* flag; and the slot svc_sync clears is queued, not loaded, with its flag
\* still 1.
C28_SyncSearchBetweenHeads ==
    /\ [](AheadOfRead(motionBuffer_syncSearchPosition)
             <= AheadOfRead(motionBuffer_writePosition))
    /\ [](\A s \in Slots :
             motionBuffer[s].waitForSync = 1 =>
                AfterSyncSearch(s) \/ FlagUnpublished(s) \/ FlagAboutToClear(s))
    /\ [][(pc = "svc_sync_504" /\ HandlerStep) =>
             /\ AheadOfRead(local.newSyncSearchPosition) >= 1
             /\ AheadOfRead(local.newSyncSearchPosition)
                   <= AheadOfRead(motionBuffer_writePosition)
             /\ local.newSyncSearchPosition = motionBuffer_syncSearchPosition
             /\ motionBuffer[local.newSyncSearchPosition].waitForSync = 1
             /\ \E k \in 1 .. Len(pending) :
                   /\ QueuedSlot(k) = local.newSyncSearchPosition
                   /\ pending[k].request.waitForSync = 1]_vars

\* C28 as stated: in every state, no slot outside those after the sync search
\* position up to the write head has waitForSync = 1.
C28_NoFlagOutsideSearchRange ==
    \A s \in Slots : motionBuffer[s].waitForSync = 1 => AfterSyncSearch(s)

\* The interrupt has loaded a segment between svc_sync's read of the search
\* position and its store, and the scan, started behind the read head, has
\* found a waiting segment to release.
C28_SyncPreemptedByLoad ==
    /\ pc = "svc_sync_504"
    /\ preempted
    /\ local.newSyncSearchPosition = motionBuffer_syncSearchPosition
    /\ AheadOfRead(motionBuffer_syncSearchPosition) = 1
    /\ motionBuffer[motionBuffer_syncSearchPosition].waitForSync = 1

\* The interrupt call has loaded a segment.
LoadStep == IsrStep /\ motionBuffer_readPosition' # motionBuffer_readPosition

\* C29: a call of the interrupt that loads a segment leaves every driver
\* enabled, whatever the enable pins were; every other call of the interrupt
\* leaves the enable pins alone; a step of a handler changes an enable pin
\* only if it is a pin store of svc_enableDrivers, which disables the pin for
\* a payload byte of 0 and enables it for any other; a svc_enableDrivers that
\* no load interrupts leaves every driver as the payload says; and it always
\* ends by sending a reply on its port with an empty payload.
C29_DriversEnabledByLoad ==
    /\ [][LoadStep => \A i \in Steppers : driversEnabled'[i]]_vars
    /\ [][(IsrStep /\ ~LoadStep) => UNCHANGED driversEnabled]_vars
    /\ [][(HandlerStep /\ driversEnabled' # driversEnabled) =>
             /\ pc = "svc_enableDrivers_458"
             /\ \E i \in Steppers :
                   /\ driversEnabled[i] # driversEnabled'[i]
                   /\ driversEnabled'[i] = (rxBuffer[1] # 0)
                   /\ \A j \in Steppers \ {i} : driversEnabled'[j] = driversEnabled[j]]_vars
    /\ [](pc = "svc_enableDrivers_463" =>
             /\ local.responsePort = gestaltPort_enableDrivers
             /\ local.txBuffer = <<>>
             /\ (~preempted \/ rxBuffer[1] # 0) =>
                   \A i \in Steppers : driversEnabled[i] = (rxBuffer[1] # 0))
    /\ [][(pc = "svc_enableDrivers_458" /\ HandlerStep) =>
             pc' \in {"svc_enableDrivers_458", "svc_enableDrivers_463"}]_vars

\* A segment released by a sync was loaded while svc_enableDrivers was
\* disabling the drivers, and a driver is enabled as the handler replies.
C29_WokenByLoad ==
    /\ Loaded
    /\ cur.request.waitForSync = 1
    /\ ignoredPort = 0
    /\ pc = "svc_enableDrivers_463"
    /\ rxBuffer = <<0>>
    /\ preempted
    /\ \E i \in Steppers : driversEnabled[i]

\* The buffer is empty and the step generator has no time remaining.
Underflow ==
    /\ activeSegment_timeRemaining = 0
    /\ motionBuffer_readPosition = motionBuffer_writePosition

\* C30: a call of the interrupt that finds no time remaining and the buffer
\* empty emits no pulse and leaves the positions, the stepper states, the
\* read head, the sync search position, waitingForSync, the active key, the
\* enable and direction pins and everything else of the program as they
\* were; only the timer's counter starts again.
C30_UnderflowChangesNothing ==
    [][(IsrStep /\ Underflow) =>
          /\ TCNT1' = 0
          /\ motorPosition' = motorPosition
          /\ pulses' = pulses
          /\ UNCHANGED <<stepperPositions, activeSegment_stepperStates,
                         motionBuffer_readPosition, motionBuffer_syncSearchPosition,
                         waitingForSync, activeSegment_segmentKey, driversEnabled>>
          /\ UNCHANGED <<progVars, fgVars>>]_vars

\* After a segment has run to its end and the buffer has drained, the
\* interrupt has been called once more.
C30_CalledWithNothingToDo ==
    /\ underflowed
    /\ Underflow
    /\ Completed
    /\ TCNT1 = 0
    /\ \E i \in Steppers : stepperPositions[i] # 0
    /\ \A i \in Steppers : driversEnabled[i]

\* What is left of the loaded request's move on axis i, in internal
\* microsteps, signed: its target, less where the steppers stood when it was
\* loaded if it is incremental, less what the ledger has moved since.
LeftToGo(i) == MoveAtLoad(i) - (stepperPositions[i] - cur.position[i])

\* C31: the call that loads a segment leaves, for each axis, direction = +1
\* and the direction pin forward if the segment's delta is above 0, and
\* direction = -1 and the pin reverse otherwise, a delta of 0 included;
\* targetSteps = stepsRemaining = |delta|; and the accumulator at 0.  From
\* then on no tick of the segment makes the distance to the target greater,
\* and the position is never past the target: what is left to go never
\* changes sign and never grows, and for an absolute segment it is the
\* target less the position.
C31_DirectionAndMagnitudeAtLoad ==
    /\ [][LoadStep =>
            \A i \in Steppers :
               LET delta == MoveAtLoad(i)'
                   state == activeSegment_stepperStates'[i]
               IN  /\ state.direction = (IF delta > 0 THEN 1 ELSE -1)
                   /\ directionPins'[i] = (IF delta > 0 THEN 1 ELSE 0)
                   /\ state.targetSteps = Abs(delta)
                   /\ state.stepsRemaining = Abs(delta)
                   /\ state.bresenhamAccumulator = 0
                   /\ stepperPositions'[i] = cur'.position[i]]_vars
    /\ [](Loaded =>
            \A i \in Steppers :
               /\ MoveAtLoad(i) > 0 => LeftToGo(i) >= 0
               /\ MoveAtLoad(i) <= 0 => LeftToGo(i) <= 0
               /\ Abs(LeftToGo(i)) <= Abs(MoveAtLoad(i))
               /\ cur.request.absolute = 1 =>
                     LeftToGo(i) = RequestTargets(cur.request)[i] - stepperPositions[i])
    /\ [][(IsrStep /\ ~LoadStep /\ Loaded) =>
             \A i \in Steppers : Abs(LeftToGo(i)') <= Abs(LeftToGo(i))]_vars

\* An absolute segment whose target is behind the position is part way back
\* to it.
C31_AbsoluteBackwardsUnderWay ==
    /\ Loaded
    /\ cur.request.absolute = 1
    /\ activeSegment_timeRemaining > 0
    /\ \E i \in Steppers :
          /\ MoveAtLoad(i) < -1
          /\ cur.position[i] > 0
          /\ LeftToGo(i) < 0
          /\ LeftToGo(i) > MoveAtLoad(i)
          /\ directionPins[i] = 0

\* The pulses an axis of K target steps gets in a segment of T ticks.
PulsesDue(K, T) == IF K < T THEN K ELSE T

\* C32: an axis of a loaded segment with targetSteps K and total time T has
\* had, after t of its ticks, at most one pulse per tick and at most K, and
\* one pulse per tick exactly if K >= T; at the segment's end it has had
\* min(K, T) pulses and stepsRemaining is the K - min(K, T) it fell short by;
\* a segment of 0 ticks is at its end as it is loaded and no call steps for
\* it; an absolute segment ends with the ledger K - min(K, T) microsteps off
\* its target; and the request was answered with statusCode 1 and a status
\* reply sent at the segment's end has statusCode 1.
C32_AtMostOnePulsePerTick ==
    /\ [](Loaded =>
            \A i \in Steppers :
               LET K == activeSegment_stepperStates[i].targetSteps
                   T == activeSegment_totalTime
                   t == T - activeSegment_timeRemaining
               IN  /\ pulses[i] <= PulsesDue(K, t)
                   /\ K >= T => pulses[i] = t
                   /\ activeSegment_stepperStates[i].stepsRemaining = K - pulses[i]
                   /\ activeSegment_stepperStates[i].stepsRemaining >= 0
                   /\ activeSegment_timeRemaining = 0 =>
                         /\ pulses[i] = PulsesDue(K, T)
                         /\ cur.request.absolute = 1 =>
                               Abs(RequestTargets(cur.request)[i] - stepperPositions[i])
                                  = K - PulsesDue(K, T))
    /\ [][(IsrStep /\ Loaded /\ activeSegment_timeRemaining = 1) =>
             \A i \in Steppers :
                PulsesAfter(i) = PulsesDue(activeSegment_stepperStates[i].targetSteps,
                                           activeSegment_totalTime)]_vars
    /\ [][(IsrStep /\ Loaded /\ activeSegment_totalTime = 0) => NoPulse]_vars
    /\ [](Loaded => cur.request.key \notin rejected)
    /\ [](pc = "transmitStatus_437" /\ local.responsePort = gestaltPort_getStatus =>
             StatusReply[1] = 1)

\* An absolute segment of fewer ticks than microsteps to its target has come
\* to its end short of the target, and a status reply is about to report it.
C32_EndedShortOfTarget ==
    /\ Completed
    /\ cur.request.absolute = 1
    /\ cur.request.time >= 1
    /\ pc = "transmitStatus_437"
    /\ local.responsePort = gestaltPort_getStatus
    /\ StatusReply[2] = cur.request.key
    /\ \E i \in Steppers :
          /\ activeSegment_stepperStates[i].targetSteps > activeSegment_totalTime
          /\ activeSegment_stepperStates[i].stepsRemaining > 0
          /\ stepperPositions[i] # RequestTargets(cur.request)[i]

\* C33 (as stated): the status reply about to be sent is a snapshot of the
\* active segment: with the read position it reports, which is the one now,
\* go the key of the segment loaded from that slot, which is the active key
\* now, and a time remaining that this segment has had, between its time
\* remaining now and its total time.
C33_StatusReplyIsSnapshot ==
    pc = "transmitStatus_437" =>
       /\ StatusReply[6] = motionBuffer_readPosition
       /\ StatusReply[2] = activeSegment_segmentKey
       /\ Loaded => motionBuffer[StatusReply[6]].segmentKey = StatusReply[2]
       /\ local.value >= activeSegment_timeRemaining
       /\ local.value <= activeSegment_totalTime

\* The slot after the read head holds a published segment whose waitForSync
\* is set.
BlockedQueued ==
    /\ motionBuffer_readPosition # motionBuffer_writePosition
    /\ motionBuffer[WrapIndex(motionBuffer_readPosition + 1)].waitForSync = 1

\* C34: waitingForSync is 0 or 1, and while it is 1 the step generator has no
\* time remaining, the buffer is not empty, and the oldest queued request is
\* one that was sent with waitForSync = 1, its flag still set or cleared by
\* a sync since; the flag goes from 0 to 1 only in a call of the interrupt
\* that finds or brings the time remaining to 0 and finds the next segment
\* waiting, and every such call leaves it at 1 and loads nothing; it goes
\* from 1 to 0 only in the call of the interrupt that loads that segment.
C34_WaitingForSyncMeansStalled ==
    /\ [](/\ waitingForSync \in {0, 1}
          /\ waitingForSync = 1 =>
                /\ activeSegment_timeRemaining = 0
                /\ motionBuffer_readPosition # motionBuffer_writePosition
                /\ pending # <<>>
                /\ pending[1].request.waitForSync = 1)
    /\ [][(waitingForSync = 0 /\ waitingForSync' = 1) =>
             /\ IsrStep
             /\ activeSegment_timeRemaining <= 1
             /\ BlockedQueued
             /\ ~LoadStep]_vars
    /\ [][(IsrStep /\ activeSegment_timeRemaining <= 1 /\ BlockedQueued) =>
             /\ waitingForSync' = 1
             /\ activeSegment_timeRemaining' = 0
             /\ ~LoadStep]_vars
    /\ [][(waitingForSync = 1 /\ waitingForSync' = 0) =>
             /\ LoadStep
             /\ RunnableQueued
             /\ cur'.request.waitForSync = 1]_vars

\* A sync has released the segment the step generator is stalled on, and the
\* interrupt has not been called since: the flag is still 1.
C34_ReleasedNotYetLoaded ==
    /\ waitingForSync = 1
    /\ pc = "idle"
    /\ RunnableQueued
    /\ pending[1].request.waitForSync = 1
    /\ Loaded
    /\ cur.request.waitForSync = 0


\* Axis i is stepped by the next tick of the loaded segment.
TriggeredNext(i) ==
    StepTriggered(activeSegment_stepperStates[i].bresenhamAccumulator
                      + activeSegment_stepperStates[i].targetSteps,
                  activeSegment_bresenhamTriggerThreshold)

\* A call of the interrupt that finds time remaining (a packet the router
\* ignores changes the record of its port or nothing).
TickStep == IsrStep /\ ignoredPort' = ignoredPort /\ activeSegment_timeRemaining >= 1

\* C35: the step generator does not look at the enable pins.  A call of the
\* interrupt that finds time remaining takes one tick off it (or, at the last
\* tick, ends the segment and calls the loader), and on every axis whose
\* accumulator passes the threshold it emits one pulse, moves stepperPositions
\* by the direction and counts stepsRemaining down, whether the drivers are
\* enabled or not; the pin stores of svc_enableDrivers change nothing of the
\* step generator; so a segment that ends with the drivers disabled has moved
\* stepperPositions by its whole move (by segmentTime steps if the move is
\* longer than that), as one that ends with the drivers enabled has.
C35_DisabledDriversDoNotPauseStepping ==
    /\ [][TickStep =>
             /\ \A i \in Steppers :
                   LET by == IF TriggeredNext(i) THEN 1 ELSE 0
                   IN  /\ stepperPositions'[i] = stepperPositions[i]
                              + by * activeSegment_stepperStates[i].direction
                       /\ motorPosition'[i] = motorPosition[i]
                              + by * PinDirection(directionPins[i])
                       /\ ~LoadStep =>
                             activeSegment_stepperStates'[i].stepsRemaining =
                                 activeSegment_stepperStates[i].stepsRemaining - by
             /\ activeSegment_timeRemaining > 1 =>
                   /\ activeSegment_timeRemaining' = activeSegment_timeRemaining - 1
                   /\ ~LoadStep
             /\ (activeSegment_timeRemaining = 1 /\ ~LoadStep) =>
                   activeSegment_timeRemaining' = 0]_vars
    /\ [][(HandlerStep /\ driversEnabled' # driversEnabled) =>
             UNCHANGED <<activeSegment_timeRemaining, activeSegment_stepperStates,
                         stepperPositions, motorPosition, pulses>>]_vars
    /\ [](Completed =>
             \A i \in Steppers :
                /\ pulses[i] = Min(Abs(MoveAtLoad(i)), cur.request.time)
                /\ Abs(stepperPositions[i] - cur.position[i]) = pulses[i]
                /\ pulses[i] > 0 =>
                      (stepperPositions[i] > cur.position[i]) = (MoveAtLoad(i) > 0))

\* Every driver is disabled while a segment runs (its load enabled them all,
\* so a svc_enableDrivers with a payload of 0 has run since and has
\* returned); the segment is at its last tick, which steps an axis.
C35_LastStepWithDriversOff ==
    /\ pc = "idle"
    /\ \A i \in Steppers : ~driversEnabled[i]
    /\ Loaded
    /\ activeSegment_timeRemaining = 1
    /\ \E i \in Steppers : TriggeredNext(i)
    /\ motionBuffer_readPosition = motionBuffer_writePosition


\* C36: while a segment is loaded, stepsRemaining of each axis is targetSteps
\* less the pulses emitted on the axis since the load, and is never below zero
\* (the uint32_t never wraps); the interrupt calls the loader exactly when the
\* time remaining is 0 after its stepping, whatever stepsRemaining is: a call
\* that finds more than one tick remaining loads nothing and keeps the
\* segment, also with no steps remaining, and a call that finds at most one
\* tick remaining and a runnable segment queued loads it, also with steps
\* remaining.
C36_StepsRemainingIsAdvisory ==
    /\ [](Loaded =>
             \A i \in Steppers :
                /\ activeSegment_stepperStates[i].stepsRemaining + pulses[i]
                       = activeSegment_stepperStates[i].targetSteps
                /\ activeSegment_stepperStates[i].stepsRemaining >= 0
                /\ activeSegment_stepperStates[i].stepsRemaining
                       <= activeSegment_stepperStates[i].targetSteps)
    /\ [][(IsrStep /\ activeSegment_timeRemaining > 1) =>
             /\ ~LoadStep
             /\ activeSegment_timeRemaining' = activeSegment_timeRemaining - 1
             /\ UNCHANGED <<cur, activeSegment_segmentKey, activeSegment_totalTime,
                            waitingForSync>>]_vars
    /\ [][(IsrStep /\ activeSegment_timeRemaining <= 1 /\ RunnableQueued) =>
             LoadStep]_vars
    /\ [][LoadStep => activeSegment_timeRemaining <= 1]_vars

\* A segment of more steps than ticks has ended with steps remaining.
C36_EndedWithStepsRemaining ==
    /\ Completed
    /\ cur.request.time >= 1
    /\ \E i \in Steppers : activeSegment_stepperStates[i].stepsRemaining > 0


====
